---- MODULE Spec2Model ----
(***************************************************************************)
(* Work-queue reconciler of KNAemailsender (src/Code.js): the Load         *)
(* operation (loadToWorkArea / loadOneDashboard) and the Move operation    *)
(* (syncDashboardToLog) over the two dashboards, the Sent Log and the      *)
(* Issue Log.  Cell values are modelled as JavaScript values: a kind       *)
(* (string, number, null) and the characters String() yields for them.    *)
(* The ClassNavi client (Verify from ClassNavi, the study-profile panel    *)
(* and the command-line puller) is modelled beside it as a machine of      *)
(* requests, answers and timers.                                           *)
(***************************************************************************)
EXTENDS Integers, Sequences, FiniteSets, TLC

-----------------------------------------------------------------------------
(* Bounds of the model.                                                    *)

\* last store day the model lets the calendar reach (days are 1..MaxDay)
MaxDay == 2
\* number of outside events in one behaviour: operator edits of a status/note
\* cell pair, replacements of a dashboard's source columns, midnights, store
\* calls that throw
MaxEvents == 2
\* number of rows the Issue Log and each half of the Sent Log may grow to
MaxLogRows == 3

-----------------------------------------------------------------------------
(* JavaScript values as they sit in spreadsheet cells.                     *)

Str(cs) == [k |-> "str", s |-> cs]
Num(cs) == [k |-> "num", s |-> cs]
Null == [k |-> "null", s |-> <<>>]
Empty == Str(<<>>)

\* String(v)
String(v) == IF v.k = "null" THEN <<"n", "u", "l", "l">> ELSE v.s

\* truthiness of v, as used by (v || '')
Truthy(v) ==
    CASE v.k = "null" -> FALSE
      [] v.k = "num" -> v.s # <<"0">>
      [] OTHER -> v.s # <<>>

\* (v || '')
OrEmpty(v) == IF Truthy(v) THEN v ELSE Empty

RECURSIVE TrimLeft(_)
TrimLeft(cs) ==
    IF cs # <<>> /\ Head(cs) = " " THEN TrimLeft(Tail(cs)) ELSE cs

RECURSIVE TrimRight(_)
TrimRight(cs) ==
    IF cs # <<>> /\ cs[Len(cs)] = " "
    THEN TrimRight(SubSeq(cs, 1, Len(cs) - 1))
    ELSE cs

\* String.prototype.trim
trim(cs) == TrimRight(TrimLeft(cs))

LowerChar(c) ==
    CASE c = "A" -> "a" [] c = "B" -> "b" [] c = "C" -> "c"
      [] c = "D" -> "d" [] c = "E" -> "e" [] c = "Y" -> "y"
      [] c = "H" -> "h" [] c = "I" -> "i" [] c = "L" -> "l"
      [] c = "M" -> "m" [] c = "N" -> "n" [] c = "O" -> "o"
      [] c = "R" -> "r" [] c = "S" -> "s" [] c = "T" -> "t"
      [] c = "U" -> "u" [] c = "V" -> "v" [] c = "X" -> "x"
      [] OTHER -> c

\* the characters the model's texts are written with
Chars ==
    { " ", "-", "|", "#", "0", "1", "2", "3", "4",
      "A", "B", "C", "D", "E", "H", "I", "L", "M", "N", "O", "R", "S", "T",
      "U", "V", "X", "Y",
      "a", "b", "c", "d", "e", "g", "h", "i", "l", "m", "n", "o", "r", "s",
      "t", "u", "v", "x", "y" }

LowerMap == [c \in Chars |-> LowerChar(c)]

\* String.prototype.toLowerCase
toLowerCase(cs) == [i \in 1..Len(cs) |-> LowerMap[cs[i]]]

-----------------------------------------------------------------------------
(* Text constants of the program.                                          *)

TAG_ISSUE == <<"I", "s", "s", "u", "e">>
TAG_ISSUE_ARCHIVE ==
    <<"I", "s", "s", "u", "e", " ", "-", " ", "A", "r", "c", "h", "i", "v", "e">>
txtSent == <<"S", "e", "n", "t">>
txtNotSent == <<"N", "o", "t", " ", "S", "e", "n", "t">>
txtSendEmail == <<"S", "E", "N", "D", " ", "E", "M", "A", "I", "L">>
txtHold == <<"H", "o", "l", "d">>
txtMath == <<"M", "a", "t", "h">>
txtReading == <<"R", "e", "a", "d", "i", "n", "g">>

lowIssue == toLowerCase(TAG_ISSUE)
lowIssueArchive == toLowerCase(TAG_ISSUE_ARCHIVE)
lowSent == toLowerCase(txtSent)
lowNotSent == toLowerCase(txtNotSent)
lowSendEmail == toLowerCase(txtSendEmail)
lowMath == toLowerCase(txtMath)
lowReading == toLowerCase(txtReading)

Subjects == {"Math", "Reading"}
SubjectText(subj) == IF subj = "Math" THEN txtMath ELSE txtReading

\* Work area I:N = 6 columns; loadOneDashboard reads at most clearMaxRows rows
clearMaxRows == 500
\* milliseconds per day: the divisor of the day bucket
DayMs == 86400000
\* offset of the spreadsheet's midnight from UTC midnight (UTC-8)
TzOffsetMs == 8 * 3600 * 1000

-----------------------------------------------------------------------------
(* Rows.                                                                   *)

\* dashboard columns A..G: A LoginID, B Name, E action flag, F Email, G Trigger #
SrcRow(id, nm, fl, em, tr) ==
    [loginId |-> id, name |-> nm, flag |-> fl, email |-> em, trigger |-> tr]
BlankSrc == SrcRow(Empty, Empty, Empty, Empty, Empty)

\* work area columns I..N: LoginID, Name, Email, Trigger #, Status, Notes
WorkRow(id, nm, em, tr, st, nt) ==
    [loginId |-> id, name |-> nm, email |-> em, trigger |-> tr,
     status |-> st, note |-> nt]
BlankWork == WorkRow(Empty, Empty, Empty, Empty, Empty, Empty)

SheetRow(src, work) == [src |-> src, work |-> work]
BlankRow == SheetRow(BlankSrc, BlankWork)

RECURSIVE DropTrailingBlank(_)
\* the rows 3..getLastRow() of a sheet: nothing but blank rows follows them
DropTrailingBlank(rows) ==
    IF rows # <<>> /\ rows[Len(rows)] = BlankRow
    THEN DropTrailingBlank(SubSeq(rows, 1, Len(rows) - 1))
    ELSE rows

\* sheet.getLastRow() of a dashboard whose header is in row 2
getLastRow(rows) == 2 + Len(rows)

-----------------------------------------------------------------------------
(* Dates and the day bucket.                                               *)

DateCell(t) == [k |-> "date", t |-> t]

\* the value of a cell holding =TODAY(): the spreadsheet's midnight of the day
TodayValue(day) == DateCell(day * DayMs + TzOffsetMs)

\* (d && d.getTime) ? d.getTime() : (typeof d === 'number' ? d : 0); the date
\* columns of the logs hold dates or nothing
getTime(d) == IF d.k = "date" THEN d.t ELSE 0

\* Math.floor(t / 86400000)
dayBucket(d) == getTime(d) \div DayMs

-----------------------------------------------------------------------------
(* Keys.                                                                   *)

\* normalizeTrigger(t)
normalizeTrigger(t) == IF t.k = "null" THEN <<>> ELSE trim(String(t))

\* a key that keeps the trigger number's surrounding blanks
keyUntrimmed(loginId, triggerNum) ==
    trim(String(OrEmpty(loginId))) \o <<"|">> \o
      (IF triggerNum.k = "null" THEN <<>> ELSE String(triggerNum))

\* key(loginId, triggerNum) of loadOneDashboard
key(loginId, triggerNum) ==
    trim(String(OrEmpty(loginId))) \o <<"|">> \o normalizeTrigger(triggerNum)

\* String(v != null ? v : '').trim()
idOf(v) == trim(String(IF v.k = "null" THEN Empty ELSE v))

-----------------------------------------------------------------------------
(* loadToWorkArea: what it reads from the Sent Log and the Issue Log.      *)

SentEntry(id, nm, tr, dt) ==
    [loginId |-> id, name |-> nm, trigger |-> tr, date |-> dt]

IssueEntry(sb, id, nm, tr, nt, dt, tg) ==
    [subject |-> sb, loginId |-> id, name |-> nm, trigger |-> tr,
     note |-> nt, date |-> dt, tag |-> tg]

\* loggedTodayBySubject[subj]: the trimmed loginIds logged in today's bucket
loggedTodayIds(sent, todayDay) ==
    { trim(String(sent[i].loginId)) :
        i \in { j \in 1..Len(sent) :
                  /\ sent[j].loginId.k # "null"
                  /\ trim(String(sent[j].loginId)) # <<>>
                  /\ sent[j].date.k # "null"
                  /\ dayBucket(sent[j].date) = todayDay } }

\* the subject an Issue Log row belongs to ("none": the row is skipped)
issueSubject(row) ==
    LET subjRaw == toLowerCase(trim(String(OrEmpty(row.subject))))
    IN  IF subjRaw = lowMath THEN "Math"
        ELSE IF subjRaw = lowReading THEN "Reading"
        ELSE "none"

\* a reading of the Issue Log that takes the rows of either subject
issueRowsOfAnySubject(issue, subj) ==
    { r \in 1..Len(issue) :
        /\ issueSubject(issue[r]) # "none"
        /\ idOf(issue[r].loginId) # <<>> }

\* the Issue Log rows loadToWorkArea looks at for a subject
issueRowsOf(issue, subj) ==
    { r \in 1..Len(issue) :
        /\ issueSubject(issue[r]) = subj
        /\ idOf(issue[r].loginId) # <<>> }

issueTag(row) == trim(String(OrEmpty(row.tag)))

\* an exclusion set built from the Issue tag instead of the Issue - Archive tag
excludeFromLoadIssueTag(issue, subj) ==
    { idOf(issue[r].loginId) :
        r \in { q \in issueRowsOf(issue, subj) : issueTag(issue[q]) = TAG_ISSUE } }

\* excludeFromLoadBySubject[subj]
excludeFromLoad(issue, subj) ==
    { idOf(issue[r].loginId) :
        r \in { q \in issueRowsOf(issue, subj) :
                  issueTag(issue[q]) = TAG_ISSUE_ARCHIVE } }

RECURSIVE issueEntriesFrom(_, _, _)
\* issueEntriesBySubject[subj], from Issue Log row r on (sheetRow = 2 + r, r
\* counted from 0 in the code and from 1 here)
issueEntriesFrom(issue, subj, r) ==
    IF r > Len(issue) THEN <<>>
    ELSE IF r \in issueRowsOf(issue, subj) /\ issueTag(issue[r]) = TAG_ISSUE
         THEN << [loginId |-> idOf(issue[r].loginId),
                  name |-> issue[r].name,
                  triggerNum |-> issue[r].trigger,
                  note |-> String(OrEmpty(issue[r].note)),
                  sheetRow |-> 1 + r] >>
              \o issueEntriesFrom(issue, subj, r + 1)
         ELSE issueEntriesFrom(issue, subj, r + 1)

issueEntriesBySubject(issue, subj) == issueEntriesFrom(issue, subj, 1)

\* issueNoteByLoginIdAndTrigger[subj][id][ntr]: the note of the last Issue
\* entry written under that pair, or nothing
issueNoteByLoginIdAndTrigger(entries, id, ntr) ==
    LET hits == { i \in 1..Len(entries) :
                    /\ entries[i].loginId = id
                    /\ normalizeTrigger(entries[i].triggerNum) = ntr }
    IN  IF hits = {} THEN [found |-> FALSE, note |-> <<>>]
        ELSE [found |-> TRUE,
              note |-> entries[CHOOSE i \in hits : \A j \in hits : j <= i].note]

-----------------------------------------------------------------------------
(* loadOneDashboard.                                                       *)

WORK_AREA_START_ROW == 3

Min(a, b) == IF a < b THEN a ELSE b
Max(a, b) == IF a > b THEN a ELSE b

\* existingRange: the work-area rows read as the present queue
existingRange(rows, maxRows) ==
    LET lastRow == getLastRow(rows)
        numExistingRows ==
            IF lastRow >= WORK_AREA_START_ROW
            THEN Min(lastRow - WORK_AREA_START_ROW + 1, maxRows)
            ELSE 0
    IN  [i \in 1..numExistingRows |-> rows[i].work]

\* String(row[0] || '').trim() of a work-area row
workId(row) == trim(String(OrEmpty(row.loginId)))

\* leftover: the rows of existingRange with a LoginID, verbatim
leftoverRows(existing) == SelectSeq(existing, LAMBDA row : workId(row) # <<>>)

\* addedKeys after the leftover loop
leftoverKeys(existing) ==
    { key(Str(workId(existing[i])), existing[i].trigger) :
        i \in { j \in 1..Len(existing) : workId(existing[j]) # <<>> } }

\* String(row[4] || '').trim().toLowerCase() === 'send email'
isSendEmail(row) ==
    toLowerCase(trim(String(OrEmpty(row.flag)))) = lowSendEmail

\* row[emailCol] != null ? String(row[emailCol]) : ''
emailOf(row) == IF row.email.k # "null" THEN String(row.email) ELSE <<>>

\* the candidate row built from an eligible dashboard row
candidateRow(row, entries) ==
    LET id == idOf(row.loginId)
        hit == issueNoteByLoginIdAndTrigger(entries, id,
                                            normalizeTrigger(row.trigger))
        note == IF hit.found THEN hit.note ELSE <<>>
        status == IF note # <<>> THEN TAG_ISSUE ELSE txtNotSent
    IN  WorkRow(row.loginId, row.name, Str(emailOf(row)), row.trigger,
                Str(status), Str(note))

\* the filter without the logged-today test
passesFilterNoLogged(row, logged, excl) ==
    /\ isSendEmail(row)
    /\ idOf(row.loginId) # <<>>
    /\ idOf(row.loginId) \notin excl

\* the dashboard rows that pass the SEND EMAIL filter of the first loop
passesFilter(row, logged, excl) ==
    /\ isSendEmail(row)
    /\ idOf(row.loginId) # <<>>
    /\ idOf(row.loginId) \notin logged
    /\ idOf(row.loginId) \notin excl

\* out: the candidates of the eligible dashboard rows, in dashboard order
candidatesFrom(data, logged, excl, entries) ==
    LET passing == SelectSeq(data, LAMBDA row : passesFilter(row, logged, excl))
    IN  [i \in 1..Len(passing) |-> candidateRow(passing[i], entries)]

\* a test by loginId alone: the first row of a loginId wins, whatever the
\* trigger number of the later ones
alreadyAddedById(added, id, tr) ==
    \E k \in added :
      Len(k) > Len(id) /\ SubSeq(k, 1, Len(id) + 1) = id \o <<"|">>

\* the test that drops a row whose key is already present
alreadyAdded(added, id, tr) == key(Str(id), tr) \in added

RECURSIVE mergeCandidates(_, _, _)
\* merged and addedKeys after the candidates i.. of out are merged into acc
mergeCandidates(acc, out, i) ==
    IF i > Len(out) THEN acc
    ELSE LET row == out[i]
             rowId == idOf(row.loginId)
         IN  IF alreadyAdded(acc.added, rowId, row.trigger)
             THEN mergeCandidates(acc, out, i + 1)
             ELSE mergeCandidates(
                    [acc EXCEPT !.added = @ \cup {key(Str(rowId), row.trigger)},
                                !.merged = Append(@, row)],
                    out, i + 1)

\* getEmailFromDataSheet(ss, subject, loginId): roster is the subject's Data
\* sheet, a sequence of [loginId, email] rows
getEmailFromDataSheet(roster, loginId) ==
    LET hits == { r \in 1..Len(roster) : idOf(roster[r].loginId) = trim(loginId) }
    IN  IF hits = {} THEN <<>>
        ELSE LET first == CHOOSE r \in hits : \A q \in hits : r <= q
             IN  IF roster[first].email.k # "null"
                 THEN String(roster[first].email) ELSE <<>>

\* the dashboard rows with this id, whatever their flag
sendEmailRowsOfAnyFlag(data, id) ==
    { r \in 1..Len(data) : idOf(data[r].loginId) = id }

\* the dashboard rows with this id that carry SEND EMAIL
sendEmailRowsOf(data, id) ==
    { r \in 1..Len(data) : idOf(data[r].loginId) = id /\ isSendEmail(data[r]) }

RECURSIVE resurfaceIssues(_, _, _, _, _, _, _)
\* merged, addedKeys and broughtBackKeys after the Issue entries i.. are
\* looked at
resurfaceIssues(acc, entries, i, data, logged, excl, roster) ==
    IF i > Len(entries) THEN acc
    ELSE LET ent == entries[i]
             id == trim(ent.loginId)
             tr == ent.triggerNum
             found == sendEmailRowsOf(data, id)
             skip == \/ alreadyAdded(acc.added, id, tr)
                     \/ found = {}
                     \/ id \in logged
                     \/ id \in excl
         IN  IF skip
             THEN resurfaceIssues(acc, entries, i + 1, data, logged, excl, roster)
             ELSE LET first == CHOOSE r \in found : \A q \in found : r <= q
                      email0 == emailOf(data[first])
                      email == IF trim(email0) = <<>>
                               THEN getEmailFromDataSheet(roster, id)
                               ELSE email0
                      row == WorkRow(Str(ent.loginId), ent.name, Str(email),
                                     ent.triggerNum, Str(TAG_ISSUE),
                                     Str(ent.note))
                  IN  resurfaceIssues(
                        [acc EXCEPT !.added = @ \cup {key(Str(id), tr)},
                                    !.merged = Append(@, row),
                                    !.brought = Append(@, ent.sheetRow)],
                        entries, i + 1, data, logged, excl, roster)

\* the e-mail the verification pass finds for a row without one
verifiedEmail(row, data, roster) ==
    LET loginId == workId(row)
        hits == { d \in 1..Len(data) : idOf(data[d].loginId) = loginId }
        fromDash == IF hits = {} THEN <<>>
                    ELSE emailOf(data[CHOOSE d \in hits : \A q \in hits : d <= q])
        newEmail == IF trim(fromDash) = <<>>
                    THEN getEmailFromDataSheet(roster, loginId)
                    ELSE fromDash
    IN  IF loginId # <<>> /\ trim(String(OrEmpty(row.email))) = <<>>
           /\ trim(newEmail) # <<>>
        THEN [row EXCEPT !.email = Str(newEmail)]
        ELSE row

\* the verification pass over the rows just written
fillMissingEmails(merged, data, roster) ==
    [r \in 1..Len(merged) |-> verifiedEmail(merged[r], data, roster)]

\* the sheet after clearContent() of the work area from row 3 over endRow rows
\* and setValues(merged)
writeWorkArea(rows, merged, maxRows) ==
    LET lastRow == getLastRow(rows)
        endRow == Max(lastRow, 2 + maxRows)
        lastCleared == WORK_AREA_START_ROW + endRow - 1
        n == Max(Len(rows), Len(merged))
        oldWork(i) == IF i <= Len(rows) THEN rows[i].work ELSE BlankWork
        src(i) == IF i <= Len(rows) THEN rows[i].src ELSE BlankSrc
        work(i) == IF i <= Len(merged) THEN merged[i]
                   ELSE IF i + 2 <= lastCleared THEN BlankWork
                   ELSE oldWork(i)
    IN  DropTrailingBlank([i \in 1..n |-> SheetRow(src(i), work(i))])

\* loadOneDashboard: the new sheet rows, the count it returns and the Issue
\* Log rows it brought back
loadOneDashboard(rows, logged, excl, entries, roster, maxRows) ==
    LET existing == existingRange(rows, maxRows)
        data == [i \in 1..Len(rows) |-> rows[i].src]
        out == candidatesFrom(data, logged, excl, entries)
        start == [merged |-> leftoverRows(existing),
                  added |-> leftoverKeys(existing),
                  brought |-> <<>>]
        acc == resurfaceIssues(mergeCandidates(start, out, 1), entries, 1,
                               data, logged, excl, roster)
        merged == acc.merged
    IN  [rows |-> IF Len(merged) > 0
                  THEN writeWorkArea(rows,
                                     fillMissingEmails(merged, data, roster),
                                     maxRows)
                  ELSE rows,
         count |-> Len(merged),
         brought |-> acc.brought]

-----------------------------------------------------------------------------------------------------------------------------------------------------
(* syncDashboardToLog: classification and the store writes it issues.      *)

\* a classification that takes every status it does not know for Sent
classOfUnknownAsSent(row) ==
    LET status == trim(String(OrEmpty(row.status)))
        statusLower == toLowerCase(status)
    IN  IF row.loginId.k = "null" \/ trim(String(row.loginId)) = <<>> THEN "none"
        ELSE IF status = <<>> \/ statusLower = lowNotSent THEN "none"
        ELSE IF statusLower = lowIssue THEN "issue"
        ELSE IF statusLower = lowIssueArchive THEN "archive"
        ELSE "sent"

\* how Move classifies a work row: "issue", "archive", "sent" or "none"
classOf(row) ==
    LET status == trim(String(OrEmpty(row.status)))
        statusLower == toLowerCase(status)
    IN  IF row.loginId.k = "null" \/ trim(String(row.loginId)) = <<>> THEN "none"
        ELSE IF status = <<>> \/ statusLower = lowNotSent THEN "none"
        ELSE IF statusLower = lowIssue THEN "issue"
        ELSE IF statusLower = lowIssueArchive THEN "archive"
        ELSE IF statusLower = lowSent THEN "sent"
        ELSE "none"

\* classes[i]: the class of the work row in sheet row 2 + i
classesOf(rows) == [i \in 1..Len(rows) |-> classOf(rows[i].work)]

RECURSIVE indicesIn(_, _, _)
\* the indices i.. whose class is in the set, ascending
indicesIn(classes, i, set) ==
    IF i > Len(classes) THEN <<>>
    ELSE IF classes[i] \in set
         THEN <<i>> \o indicesIn(classes, i + 1, set)
         ELSE indicesIn(classes, i + 1, set)

\* issueSheetRows and sentMathSheetRows / sentReadingSheetRows, less 2
issueSheetRows(classes) == indicesIn(classes, 1, {"issue", "archive"})
sentSheetRows(classes) == indicesIn(classes, 1, {"sent"})

\* row[col.notes - 1] != null ? row[col.notes - 1] : ''
noteOf(row) == IF row.note.k # "null" THEN row.note ELSE Empty

\* Issue Log rows whose tag is the status cell as the operator typed it
issueDataStatusAsTag(rows, classes, subj, todayCell) ==
    LET iss == issueSheetRows(classes)
    IN  [r \in 1..Len(iss) |->
           IssueEntry(Str(SubjectText(subj)),
                      rows[iss[r]].work.loginId,
                      rows[iss[r]].work.name,
                      rows[iss[r]].work.trigger,
                      noteOf(rows[iss[r]].work),
                      todayCell,
                      rows[iss[r]].work.status)]

\* issueRows with the date put in: the rows written to the Issue Log
issueData(rows, classes, subj, todayCell) ==
    LET iss == issueSheetRows(classes)
    IN  [r \in 1..Len(iss) |->
           IssueEntry(Str(SubjectText(subj)),
                      rows[iss[r]].work.loginId,
                      rows[iss[r]].work.name,
                      rows[iss[r]].work.trigger,
                      noteOf(rows[iss[r]].work),
                      todayCell,
                      Str(IF classes[iss[r]] = "archive"
                          THEN TAG_ISSUE_ARCHIVE ELSE TAG_ISSUE))]

\* sentMathRows / sentReadingRows: the three cells written per Sent row
sentRows(rows, classes) ==
    LET sent == sentSheetRows(classes)
    IN  [r \in 1..Len(sent) |->
           SentEntry(rows[sent[r]].work.loginId, rows[sent[r]].work.name,
                     rows[sent[r]].work.trigger, Empty)]

\* a log position that is always the first row under the header
getNextLogRowTop(log, field) == 0

\* getNextLogRow(logSheet, col) - 1: the number of log rows under the header
\* up to the last one whose cell in that column is not blank
getNextLogRow(log, field) ==
    LET filled == { r \in 1..Len(log) :
                      /\ log[r][field].k # "null"
                      /\ trim(String(log[r][field])) # <<>> }
    IN  IF filled = {} THEN 0 ELSE CHOOSE r \in filled : \A q \in filled : q <= r

\* range.setValues(vals) on the log rows from position pos on
setValuesAt(log, pos, vals) ==
    SubSeq(log, 1, pos - 1) \o vals \o SubSeq(log, pos + Len(vals), Len(log))

\* range.setValues(dateCol) on the date cells of the log rows pos..pos+n-1
setDatesAt(log, pos, n, todayCell) ==
    [r \in 1..Len(log) |->
       IF r >= pos /\ r < pos + n THEN [log[r] EXCEPT !.date = todayCell]
       ELSE log[r]]

\* the rows to delete in ascending order
RECURSIVE sortAscending(_)
sortAscending(S) ==
    IF S = {} THEN <<>>
    ELSE LET m == CHOOSE x \in S : \A y \in S : x <= y
         IN  <<m>> \o sortAscending(S \ {m})

\* sorted = rowsToDelete.slice().sort((a, b) => b - a)
RECURSIVE sortDescending(_)
sortDescending(S) ==
    IF S = {} THEN <<>>
    ELSE LET m == CHOOSE x \in S : \A y \in S : y <= x
         IN  <<m>> \o sortDescending(S \ {m})

Range(f) == { f[i] : i \in DOMAIN f }

\* sheet.deleteRow / issueLog.deleteRow of the row at index i
deleteRow(rows, i) == SubSeq(rows, 1, i - 1) \o SubSeq(rows, i + 1, Len(rows))

\* rowsToDelete without the rows logged as Sent
rowsToDeleteIssuesOnly(classes) ==
    sortDescending(Range(issueSheetRows(classes)))

\* rowsToDelete of syncDashboardToLog, sorted for deletion
rowsToDelete(classes) ==
    sortDescending(Range(issueSheetRows(classes)) \cup Range(sentSheetRows(classes)))

\* the store writes of one Move, in program order
moveWrites(classes, toDelete) ==
    LET iss == issueSheetRows(classes)
        sentW == IF Len(sentSheetRows(classes)) > 0
                 THEN << [op |-> "sentValues", row |-> 0],
                         [op |-> "sentDates", row |-> 0] >>
                 ELSE <<>>
        clearW == [c \in 1..(2 * Len(iss)) |->
                     IF c % 2 = 1
                     THEN [op |-> "clearStatus", row |-> iss[(c + 1) \div 2]]
                     ELSE [op |-> "clearNotes", row |-> iss[c \div 2]]]
        issW == IF Len(iss) > 0
                THEN << [op |-> "issueValues", row |-> 0] >> \o clearW
                ELSE <<>>
        delW == [d \in 1..Len(toDelete) |-> [op |-> "deleteRow", row |-> toDelete[d]]]
    IN  sentW \o issW \o delW

\* the store after one write w of a Move; v holds the values the Move
\* computed before its first write: the rows for the two logs, today, and
\* the positions getNextLogRow(..) + 1 of the first free row of each log
\* (counted under the header)
applyWrite(st, w, v) ==
    CASE w.op = "sentValues" ->
           [st EXCEPT !.sent = setValuesAt(@, v.nextSent, v.sentVals)]
      [] w.op = "sentDates" ->
           [st EXCEPT !.sent = setDatesAt(@, v.nextSent, Len(v.sentVals), v.today)]
      [] w.op = "issueValues" ->
           [st EXCEPT !.issue = setValuesAt(@, v.nextIssue, v.issueVals)]
      [] w.op = "clearStatus" ->
           [st EXCEPT !.rows[w.row].work.status = Empty]
      [] w.op = "clearNotes" ->
           [st EXCEPT !.rows[w.row].work.note = Empty]
      [] OTHER ->
           [st EXCEPT !.rows = deleteRow(@, w.row)]

RECURSIVE applyWrites(_, _, _, _, _)
\* the store after the writes i..n of ws
applyWrites(st, ws, i, n, v) ==
    IF i > n THEN st
    ELSE applyWrites(applyWrite(st, ws[i], v), ws, i + 1, n, v)

\* syncDashboardToLog run from the subject's dashboard: the store after the
\* first n of its writes (all of them when nothing throws)
syncDashboardToLog(rows, sent, issue, subj, todayCell, n) ==
    LET classes == classesOf(rows)
        ws == moveWrites(classes, rowsToDelete(classes))
        v == [sentVals |-> sentRows(rows, classes),
              issueVals |-> issueData(rows, classes, subj, todayCell),
              today |-> todayCell,
              nextSent |-> getNextLogRow(sent, "loginId") + 1,
              nextIssue |-> getNextLogRow(issue, "subject") + 1]
        st == applyWrites([rows |-> rows, sent |-> sent, issue |-> issue],
                          ws, 1, n, v)
    IN  [st EXCEPT !.rows = DropTrailingBlank(@)]

\* the number of store writes a Move of these rows issues
numMoveWrites(rows) ==
    LET classes == classesOf(rows)
    IN  Len(moveWrites(classes, rowsToDelete(classes)))

-----------------------------------------------------------------------------
(* Row 2 of a dashboard: the header cells of columns A..N.                 *)

txtLoginID == <<"L", "o", "g", "i", "n", "I", "D">>
txtName == <<"N", "a", "m", "e">>
txtEmail == <<"E", "m", "a", "i", "l">>
txtTrigger == <<"T", "r", "i", "g", "g", "e", "r">>
txtTriggerNo == txtTrigger \o <<" ", "#">>
txtStatus == <<"S", "t", "a", "t", "u", "s">>
txtNotes == <<"N", "o", "t", "e", "s">>

\* the lower-case texts getColumnIndices compares with
lowLoginID == toLowerCase(txtLoginID)
lowName == toLowerCase(txtName)
lowEmail == toLowerCase(txtEmail)
lowTrigger == toLowerCase(txtTrigger)
lowTriggerNo == toLowerCase(txtTriggerNo)
lowStatus == toLowerCase(txtStatus)
lowNotes == toLowerCase(txtNotes)

\* cs.indexOf(sub) !== -1
contains(cs, sub) ==
    \E i \in 1..(Len(cs) - Len(sub) + 1) : SubSeq(cs, i, i + Len(sub) - 1) = sub

\* the last and the first of a set of columns (1-based), 0 if there is none
lastColumn(hits) ==
    IF hits = {} THEN 0 ELSE CHOOSE c \in hits : \A d \in hits : d <= c
firstColumn(hits) ==
    IF hits = {} THEN 0 ELSE CHOOSE c \in hits : \A d \in hits : c <= d

\* h = String(headerRow[c] || '').trim().toLowerCase()
headerText(cell) == toLowerCase(trim(String(OrEmpty(cell))))

\* the columns whose lower-case header is the text
columnsNamed(heads, low) == { c \in 1..Len(heads) : heads[c] = low }

\* the column indices found in the lower-case header texts
columnIndices(headerRow, heads) ==
    LET trig == lastColumn(columnsNamed(heads, lowTriggerNo) \cup
                           { c \in 1..Len(heads) : contains(heads[c], lowTrigger) })
    IN  [loginId |-> lastColumn(columnsNamed(heads, lowLoginID)),
         name |-> lastColumn(columnsNamed(heads, lowName)),
         triggerNum |-> IF trig # 0 THEN trig
                        ELSE firstColumn({ c \in 1..Len(headerRow) :
                                             contains(String(headerRow[c]),
                                                      txtTrigger) }),
         email |-> lastColumn(columnsNamed(heads, lowEmail)),
         status |-> lastColumn(columnsNamed(heads, lowStatus)),
         notes |-> lastColumn(columnsNamed(heads, lowNotes))]

\* getColumnIndices(headerRow): the last column with each header; a cell
\* takes one branch of the else-if chain, and no cell takes two
getColumnIndices(headerRow) ==
    columnIndices(headerRow,
                  [c \in 1..Len(headerRow) |-> headerText(headerRow[c])])

\* !col.loginId || !col.status
missingHeaders(col) == col.loginId = 0 \/ col.status = 0

\* the columns syncDashboardToLog works with: those of the header row, the
\* LoginID, Name and Trigger # columns placed relative to Status
moveColumns(headerRow) ==
    LET col == getColumnIndices(headerRow)
    IN  IF col.status >= 4
        THEN [col EXCEPT !.loginId = col.status - 4,
                         !.name = col.status - 3,
                         !.triggerNum = col.status - 1]
        ELSE col

\* emailCol of loadOneDashboard (0-based)
emailCol(headerRow) ==
    LET col == getColumnIndices(headerRow)
    IN  IF col.email >= 1 /\ col.email <= 7 THEN col.email - 1 ELSE 5

\* the columns of the work area as Load writes it: I LoginID, J Name,
\* L Trigger #, M Status, N Notes
WorkColumns ==
    [loginId |-> 9, name |-> 10, triggerNum |-> 12, status |-> 13, notes |-> 14]

\* a header row: the cells of I..N, the cells of A..H blank
HeaderRow(i, j, k, l, m, n) ==
    [c \in 1..14 |->
       CASE c = 9 -> i [] c = 10 -> j [] c = 11 -> k
         [] c = 12 -> l [] c = 13 -> m [] c = 14 -> n
         [] OTHER -> Empty]

\* DASHBOARD_HEADERS in I..N
DASHBOARD_HEADERS ==
    HeaderRow(Str(txtLoginID), Str(txtName), Str(txtTriggerNo), Str(txtEmail),
              Str(txtStatus), Str(txtNotes))

-----------------------------------------------------------------------------
(* The store and the operations on it.                                     *)

VARIABLES
    sheet,      \* sheet[subj]: rows 3.. of the subject's dashboard sheet
    dataSheet,  \* dataSheet[subj]: the rows of "Math Data" / "Reading Data"
    sentLog,    \* sentLog[subj]: the subject's columns of the Sent Log
    issueLog,   \* the rows of the Issue Log under its header
    today,      \* the store's day, as =TODAY() reports it
    last,       \* the operation that produced this state and what it logged
    sentOn,     \* sentOn[subj]: loginIds a Move logged as Sent, with the date, today
    events,     \* outside events so far
    header,     \* header[subj]: row 2 of the subject's dashboard, cells A..N
    logSheets,  \* the log sheets the spreadsheet holds, by name
    navi        \* the ClassNavi client: its program, requests and results

vars == <<sheet, dataSheet, sentLog, issueLog, today, last, sentOn,
          events, header, logSheets, navi>>

\* the two log sheets, by SENT_LOG_SHEET_NAME and ISSUE_LOG_SHEET_NAME
BothLogs == {"Sent Log", "Issue Log"}

\* number of study-result items one run works through
NumItems == 2
\* number of fetch chains the panel has started
MaxChains == 2
\* students are counted up to this many; beyond it the count stays here
StudentCap == 300

\* the ClassNavi client before an operation starts.  prog is the program
\* that runs; pc the place of its list fetch; inflight the requests sent and
\* not yet answered; issued the requests the last step sent and delayed
\* whether a delay came directly before them; gap whether a delay has passed
\* since the last request; students the students collected; probes the
\* answers to the five page-2 probes; chosen the pagination schema picked;
\* pagesFetched the page counter; chain[c] a run over the study-result
\* items: its place, its index, the items it took, those whose call failed
\* and the times it reached its completion step; entries the shared result
\* list; errors the items with a text in the error column; runs the chains
\* started
NaviIdle(prog) ==
    [prog |-> prog, pc |-> "idle", inflight |-> 0, issued |-> 0,
     delayed |-> TRUE, gap |-> TRUE, students |-> 0, useStartNum |-> FALSE,
     probes |-> [i \in 1..5 |-> "none"], chosen |-> 0, pagesFetched |-> 0,
     chain |-> [c \in 1..MaxChains |->
                  [pc |-> "idle", index |-> 0, taken |-> <<>>, failed |-> {},
                   completions |-> 0]],
     entries |-> <<>>, errors |-> {}, runs |-> 0]

S1 == <<"S", "1">>
S2 == <<"S", "2">>

\* dashboard rows the source columns are drawn from
SrcChoices ==
    { SrcRow(Str(S1), Str(<<"A">>), Str(txtSendEmail), Str(<<"a">>), Num(<<"3">>)),
      SrcRow(Str(<<" ">> \o S1), Str(<<"A">>), Str(<<"s", "e", "n", "d", " ", "E", "m", "a", "i", "l", " ">>),
             Empty, Str(<<"3", " ">>)),
      SrcRow(Str(S1), Str(<<"A">>), Str(txtSendEmail), Empty, Num(<<"4">>)),
      SrcRow(Str(S2), Str(<<"B">>), Str(txtSendEmail), Empty, Num(<<"3">>)),
      SrcRow(Str(S1), Str(<<"A">>), Empty, Str(<<"a">>), Num(<<"3">>)) }

\* number of dashboard rows the Math source table holds at the start
MaxSrcRows == 2
\* number of dashboard rows a replaced source table holds
MaxRefreshRows == 1

\* dashboard rows of the Reading dashboard
ReadingChoices ==
    { SrcRow(Str(S1), Str(<<"A">>), Str(txtSendEmail), Str(<<"a">>), Num(<<"3">>)) }

SrcConfigs(subj, maxRows) ==
    UNION { [1..n -> IF subj = "Math" THEN SrcChoices ELSE ReadingChoices] :
              n \in 0..maxRows }

\* the Data sheet the roster lookup is run against: S2 has an e-mail there,
\* S1 has none
DataRows == << [loginId |-> Str(S2 \o <<" ">>), email |-> Str(<<"r">>)] >>

\* (status, note) pairs the operator types into a work row
EditChoices ==
    { <<Str(txtSent), Empty>>,
      <<Str(TAG_ISSUE), Str(<<"X">>)>>,
      <<Str(TAG_ISSUE), Empty>>,
      <<Str(<<"i", "s", "s", "u", "e", " ", "-", " ", "A", "R", "C", "H", "I", "V", "E", " ">>), Empty>>,
      <<Str(txtHold), Empty>> }

\* on the Reading dashboard the operator marks rows Sent or archives them
ReadingEditChoices ==
    { c \in EditChoices : toLowerCase(trim(String(c[1]))) \in {lowSent, lowIssueArchive} }

withSource(rows, cfg) ==
    LET n == Max(Len(rows), Len(cfg))
    IN  DropTrailingBlank(
          [i \in 1..n |->
             SheetRow(IF i <= Len(cfg) THEN cfg[i] ELSE BlankSrc,
                      IF i <= Len(rows) THEN rows[i].work ELSE BlankWork)])

\* Issue Logs an earlier session left behind
InitIssueLogs ==
    { <<>>,
      << IssueEntry(Str(txtMath), Str(S1), Str(<<"A">>), Num(<<"4">>),
                    Str(<<"Y">>), TodayValue(1), Str(TAG_ISSUE)) >> }

\* the record kept of the last operation: its name and subject, whether it
\* ran to its end, whether a Load directly follows a Load, the rows a Move
\* wrote to the two logs, the positions (in the Issue Log as it was) of the
\* entries a Load brought back, the title of the alert shown at its end and
\* the row counts the text of that alert gives
Op(name, subj, ok, again, sent, issues) ==
    [op |-> name, subj |-> subj, ok |-> ok, again |-> again,
     sent |-> sent, issues |-> issues, removed |-> {}, alert |-> "none",
     counts |-> <<>>]

Init ==
    /\ \E m \in SrcConfigs("Math", MaxSrcRows), log \in InitIssueLogs :
         \* an Issue Log left behind comes with a dashboard of at most
         \* MaxRefreshRows rows
         /\ log # <<>> => Len(m) <= MaxRefreshRows
         /\ sheet = [s \in Subjects |->
                       withSource(<<>>, IF s = "Math" THEN m
                                        ELSE << SrcRow(Str(S1), Str(<<"A">>),
                                                       Str(txtSendEmail),
                                                       Str(<<"a">>), Num(<<"3">>)) >>)]
         /\ issueLog = log
    /\ dataSheet = [s \in Subjects |-> DataRows]
    /\ sentLog = [s \in Subjects |-> <<>>]
    /\ today = 1
    /\ last = Op("none", "none", TRUE, FALSE, <<>>, <<>>)
    /\ sentOn = [s \in Subjects |-> {}]
    /\ logSheets = BothLogs
    /\ navi = NaviIdle("none")
    /\ events = 0
    /\ header = [s \in Subjects |-> DASHBOARD_HEADERS]

\* a Move stamp taken at local midnight of a zone east of Greenwich: it
\* falls in the previous day's bucket
moveTodayEast(day) == DateCell(day * DayMs - TzOffsetMs)

\* today as syncDashboardToLog reads it: =TODAY() in cell T1 of the Sent Log
moveToday(day) == TodayValue(day)

\* today as the clock of the executing process gives it, in a process that
\* runs on UTC: the store's evening falls on the next day there
loadTodayFromClock(day) == DateCell((day + 1) * DayMs)

\* today as loadToWorkArea reads it: =TODAY() in cell T1 of the Issue Log
loadToday(day) == TodayValue(day)

\* what loadOneDashboard yields for a subject's dashboard in the present store
loadResult(subj) ==
    loadOneDashboard(sheet[subj],
                     loggedTodayIds(sentLog[subj], dayBucket(loadToday(today))),
                     excludeFromLoad(issueLog, subj),
                     issueEntriesBySubject(issueLog, subj),
                     dataSheet[subj],
                     clearMaxRows)

RECURSIVE deleteRows(_, _)
\* issueLog.deleteRow over the rows to delete, highest first
deleteRows(log, sorted) ==
    IF sorted = <<>> THEN log
    ELSE deleteRows(deleteRow(log, Head(sorted) - 1), Tail(sorted))

\* a deletion that hits the row above each row brought back
issueLogAfterLoadRowAbove(log, broughtBack) ==
    deleteRows(log, sortDescending({ r - 1 : r \in Range(broughtBack) }))

\* the Issue Log after loadToWorkArea removed the rows brought back
issueLogAfterLoad(log, broughtBack) ==
    deleteRows(log, sortDescending(Range(broughtBack)))

\* Load: loadToWorkArea; the header rows of the model name no e-mail column
\* within A..G, so that the e-mail is read from column F
Load ==
    IF logSheets # BothLogs
    THEN \* 'Missing sheets': nothing is read or written
         /\ last' = [Op("Load", "all", FALSE, last.op = "Load", <<>>, <<>>)
                       EXCEPT !.alert = "Missing sheets"]
         /\ UNCHANGED <<sheet, dataSheet, sentLog, issueLog, today, sentOn,
                        events, header, logSheets, navi>>
    ELSE
         /\ \A s \in Subjects : emailCol(header[s]) = 5
         /\ \E math \in {loadResult("Math")}, reading \in {loadResult("Reading")} :
              /\ sheet' = [s \in Subjects |->
                             IF s = "Math" THEN math.rows ELSE reading.rows]
              /\ issueLog' = issueLogAfterLoad(issueLog,
                                               math.brought \o reading.brought)
              /\ last' = [Op("Load", "all", TRUE, last.op = "Load", <<>>, <<>>)
                            EXCEPT !.removed =
                              { r - 1 : r \in Range(math.brought \o reading.brought) },
                                   !.alert = "Load complete",
                                   !.counts = <<math.count, reading.count>>]
         /\ UNCHANGED <<dataSheet, sentLog, today, sentOn, events, header, logSheets, navi>>

\* Range.setValues: the rows and columns of the values are those of the
\* range, else the call throws
setValuesFits(numRows, numColumns, values) ==
    /\ Len(values) = numRows
    /\ \A i \in 1..Len(values) : Len(values[i]) = numColumns

\* the two header writes to a Sent Log just inserted: getRange(1, 1, 1, 4)
\* and getRange(1, 5, 1, 8), each given one row of four header texts
sentLogHeadersFit ==
    /\ setValuesFits(1, 4, << <<"Math LoginID", "Math Name", "Math Trigger #", "Date">> >>)
    /\ setValuesFits(1, 8, << <<"Reading LoginID", "Reading Name",
                                "Reading Trigger #", "Date">> >>)

\* the alert syncDashboardToLog ends with
moveAlert(missing, failed, lastRow) ==
    IF missing THEN "Missing headers"
    ELSE IF lastRow < WORK_AREA_START_ROW THEN "none"
    ELSE IF failed THEN "Move error"
    ELSE "Move complete"

\* the counts in the text of that alert: 'Sent: ' and 'Issues: ' in the
\* Move complete message; the Move error text is e.message and a hint to the
\* execution log, the Missing headers text names the headers
moveCounts(alert, rows) ==
    IF alert = "Move complete"
    THEN <<Len(sentSheetRows(classesOf(rows))), Len(issueSheetRows(classesOf(rows)))>>
    ELSE <<>>

\* Move: syncDashboardToLog run from the subject's dashboard; it returns
\* before its first write when the header check fails, and n < the number of
\* its writes when a store call throws after n writes
Move(subj) ==
    IF "Sent Log" \notin logSheets /\ ~sentLogHeadersFit
    THEN \* the Sent Log is inserted, a header write throws and the catch
         \* block shows 'Move error'; the Issue Log is not reached
         /\ logSheets' = logSheets \cup {"Sent Log"}
         /\ last' = [Op("Move", subj, FALSE, FALSE, <<>>, <<>>)
                       EXCEPT !.alert = "Move error"]
         /\ UNCHANGED <<sheet, dataSheet, sentLog, issueLog, today, sentOn,
                        events, header, navi>>
    ELSE
         \E col \in {moveColumns(header[subj])} :
          \E all \in {IF missingHeaders(col) THEN 0 ELSE numMoveWrites(sheet[subj])} :
           \E n \in 0..all :
             \E st \in {syncDashboardToLog(sheet[subj], sentLog[subj], issueLog,
                                           subj, moveToday(today), n)} :
               \* the writes are modelled for the columns Load fills
               /\ ~missingHeaders(col) =>
                     \A f \in DOMAIN WorkColumns : col[f] = WorkColumns[f]
               /\ n < all => events < MaxEvents
               /\ Len(st.issue) <= MaxLogRows
               /\ Len(st.sent) <= MaxLogRows
               /\ events' = IF n < all THEN events + 1 ELSE events
               /\ sheet' = [sheet EXCEPT ![subj] = st.rows]
               /\ sentLog' = [sentLog EXCEPT ![subj] = st.sent]
               /\ issueLog' = st.issue
               /\ last' = [Op("Move", subj, n = all /\ ~missingHeaders(col), FALSE,
                              SubSeq(st.sent, Len(sentLog[subj]) + 1, Len(st.sent)),
                              SubSeq(st.issue, Len(issueLog) + 1, Len(st.issue)))
                             EXCEPT !.alert = moveAlert(missingHeaders(col), n < all,
                                                        getLastRow(sheet[subj])),
                                    !.counts = moveCounts(
                                                 moveAlert(missingHeaders(col), n < all,
                                                           getLastRow(sheet[subj])),
                                                 sheet[subj])]
               /\ sentOn' = [sentOn EXCEPT ![subj] = @ \cup
                               { trim(String(e.loginId)) :
                                   e \in { x \in Range(SubSeq(st.sent, Len(sentLog[subj]) + 1,
                                                              Len(st.sent))) :
                                             x.date.k = "date" } }]
               /\ logSheets' = BothLogs
               /\ UNCHANGED <<dataSheet, today, header, navi>>

\* the operator types a status and a note into a row of the work queue
Edit(subj) ==
    /\ events < MaxEvents
    /\ \E i \in 1..Len(sheet[subj]),
          c \in IF subj = "Math" THEN EditChoices ELSE ReadingEditChoices :
         /\ workId(sheet[subj][i].work) # <<>>
         /\ sheet' = [sheet EXCEPT ![subj][i].work.status = c[1],
                                   ![subj][i].work.note = c[2]]
    /\ events' = events + 1
    /\ last' = Op("none", "none", TRUE, FALSE, <<>>, <<>>)
    /\ UNCHANGED <<dataSheet, sentLog, issueLog, today, sentOn, header,
                 logSheets, navi>>

\* the dashboard's source columns are replaced by fresh data
Refresh(subj) ==
    /\ events < MaxEvents
    /\ \E cfg \in SrcConfigs(subj, MaxRefreshRows) : sheet' = [sheet EXCEPT ![subj] = withSource(@, cfg)]
    /\ events' = events + 1
    /\ last' = Op("none", "none", TRUE, FALSE, <<>>, <<>>)
    /\ UNCHANGED <<dataSheet, sentLog, issueLog, today, sentOn, header,
                 logSheets, navi>>

\* midnight passes in the spreadsheet's time zone
NextDay ==
    /\ today < MaxDay
    /\ events < MaxEvents
    /\ today' = today + 1
    /\ events' = events + 1
    /\ sentOn' = [s \in Subjects |-> {}]
    /\ last' = Op("none", "none", TRUE, FALSE, <<>>, <<>>)
    /\ UNCHANGED <<sheet, dataSheet, sentLog, issueLog, header, logSheets, navi>>

Next ==
    \/ Load
    \/ \E subj \in Subjects : Move(subj)
    \/ \E subj \in Subjects : Edit(subj)
    \/ \E subj \in Subjects : Refresh(subj)
    \/ NextDay

Spec == Init /\ [][Next]_vars

\* ---------------------------------------------------------------------------
\* A long work queue: Load run on a queue about clearMaxRows rows long
\* ---------------------------------------------------------------------------

\* the queue lengths range over clearMaxRows - BulkSpread .. clearMaxRows + BulkSpread
BulkSpread == 2

\* the i-th row of a long queue: LoginID S<i>, an e-mail, not yet handled
BulkRow(i) ==
    WorkRow(Str(<<"S", ToString(i)>>), Str(<<"A">>), Str(<<"a">>),
            Num(<<"3">>), Str(txtNotSent), Empty)

\* a queue of n rows whose last row carries the operator's status and note
BulkQueue(n, c) ==
    [i \in 1..n |->
       IF i < n THEN BulkRow(i)
       ELSE [BulkRow(i) EXCEPT !.status = c[1], !.note = c[2]]]

\* the store with a long Math queue left by an earlier Load of a long dashboard
\* whose source table has since been replaced
InitBulk ==
    /\ \E n \in (clearMaxRows - BulkSpread)..(clearMaxRows + BulkSpread),
          c \in EditChoices \cup {<<Str(txtNotSent), Empty>>},
          cfg \in SrcConfigs("Math", MaxRefreshRows) :
         LET q == BulkQueue(n, c)
         IN  sheet = [s \in Subjects |->
                        IF s = "Math"
                        THEN [i \in 1..n |->
                                SheetRow(IF i <= Len(cfg) THEN cfg[i] ELSE BlankSrc,
                                         q[i])]
                        ELSE <<>>]
    /\ dataSheet = [s \in Subjects |-> DataRows]
    /\ sentLog = [s \in Subjects |-> <<>>]
    /\ issueLog \in InitIssueLogs
    /\ today = 1
    /\ last = Op("none", "none", TRUE, FALSE, <<>>, <<>>)
    /\ sentOn = [s \in Subjects |-> {}]
    /\ logSheets = BothLogs
    /\ navi = NaviIdle("none")
    /\ events = 0
    /\ header = [s \in Subjects |-> DASHBOARD_HEADERS]

NextBulk == Load

SpecBulk == InitBulk /\ [][NextBulk]_vars

\* ---------------------------------------------------------------------------
\* Keys: Load run on one queue row and one dashboard row whose LoginID and
\* trigger cells range over spellings of the same and of different values
\* ---------------------------------------------------------------------------

\* LoginID cells
KeyIds ==
    { Str(<<"S">>), Str(<<" ", "S", " ">>), Str(<<"S", "|", "1">>) }

\* trigger cells: the number 1, texts that spell it, other texts, a blank cell
KeyTriggers ==
    { Num(<<"1">>), Str(<<"1">>), Str(<<" ", "1", " ">>), Str(<<"2">>),
      Str(<<"1", "|", "2">>), Empty }

\* the store with one Math queue row and one SEND EMAIL dashboard row
InitKey ==
    /\ \E id1 \in KeyIds, tr1 \in KeyTriggers, id2 \in KeyIds, tr2 \in KeyTriggers :
         sheet = [s \in Subjects |->
                    IF s = "Math"
                    THEN << SheetRow(SrcRow(id1, Str(<<"A">>), Str(txtSendEmail),
                                            Str(<<"a">>), tr1),
                                     WorkRow(id2, Str(<<"A">>), Str(<<"a">>), tr2,
                                             Str(txtNotSent), Empty)) >>
                    ELSE <<>>]
    /\ dataSheet = [s \in Subjects |-> DataRows]
    /\ sentLog = [s \in Subjects |-> <<>>]
    /\ issueLog = <<>>
    /\ today = 1
    /\ last = Op("none", "none", TRUE, FALSE, <<>>, <<>>)
    /\ sentOn = [s \in Subjects |-> {}]
    /\ logSheets = BothLogs
    /\ navi = NaviIdle("none")
    /\ events = 0
    /\ header = [s \in Subjects |-> DASHBOARD_HEADERS]

NextKey == Load

SpecKey == InitKey /\ [][NextKey]_vars

\* ---------------------------------------------------------------------------
\* Load over Issue Logs of several entries (SpecLog)
\* ---------------------------------------------------------------------------

\* Issue Log entries earlier Moves wrote, for both subjects and both tags
LogChoices ==
    { IssueEntry(Str(txtMath), Str(S1), Str(<<"A">>), Num(<<"4">>),
                 Str(<<"Y">>), TodayValue(1), Str(TAG_ISSUE)),
      IssueEntry(Str(txtMath), Str(S1), Str(<<"A">>), Num(<<"3">>),
                 Str(<<"X">>), TodayValue(1), Str(TAG_ISSUE)),
      IssueEntry(Str(txtMath), Str(S2), Str(<<"B">>), Num(<<"3">>),
                 Empty, TodayValue(1), Str(TAG_ISSUE)),
      IssueEntry(Str(txtMath), Str(S2), Str(<<"B">>), Num(<<"3">>),
                 Empty, TodayValue(1), Str(TAG_ISSUE_ARCHIVE)),
      IssueEntry(Str(txtReading), Str(S1), Str(<<"A">>), Num(<<"4">>),
                 Str(<<"Y">>), TodayValue(1), Str(TAG_ISSUE)),
      IssueEntry(Str(txtReading), Str(S1), Str(<<"A">>), Num(<<"3">>),
                 Str(<<"X">>), TodayValue(1), Str(TAG_ISSUE)) }

\* the store after Moves emptied both queues into the Issue Log
InitLog ==
    /\ \E m \in SrcConfigs("Math", MaxSrcRows),
          log \in UNION { [1..n -> LogChoices] : n \in 0..MaxLogRows } :
         /\ sheet = [s \in Subjects |->
                       withSource(<<>>, IF s = "Math" THEN m
                                        ELSE << SrcRow(Str(S1), Str(<<"A">>),
                                                       Str(txtSendEmail),
                                                       Str(<<"a">>), Num(<<"3">>)) >>)]
         /\ issueLog = log
    /\ dataSheet = [s \in Subjects |-> DataRows]
    /\ sentLog = [s \in Subjects |-> <<>>]
    /\ today = 1
    /\ last = Op("none", "none", TRUE, FALSE, <<>>, <<>>)
    /\ sentOn = [s \in Subjects |-> {}]
    /\ logSheets = BothLogs
    /\ navi = NaviIdle("none")
    /\ events = 0
    /\ header = [s \in Subjects |-> DASHBOARD_HEADERS]

NextLog == Load

SpecLog == InitLog /\ [][NextLog]_vars

\* ---------------------------------------------------------------------------
\* Load and Move on dashboards whose header row was edited (SpecHeader)
\* ---------------------------------------------------------------------------

\* header rows: the expected one, one typed in lower case with blanks, one
\* without the LoginID header, one without the Status header, a blank one
HeaderChoices ==
    { DASHBOARD_HEADERS,
      HeaderRow(Str(<<"l", "o", "g", "i", "n", "i", "d", " ">>), Str(txtName),
                Str(txtTrigger), Str(txtEmail),
                Str(<<" ", "s", "t", "a", "t", "u", "s">>), Str(txtNotes)),
      HeaderRow(Empty, Str(txtName), Str(txtTriggerNo), Str(txtEmail),
                Str(txtStatus), Str(txtNotes)),
      HeaderRow(Str(txtLoginID), Str(txtName), Str(txtTriggerNo), Str(txtEmail),
                Empty, Str(txtNotes)),
      HeaderRow(Empty, Empty, Empty, Empty, Empty, Empty) }

\* work queues an earlier Load and the operator's edits left behind
QueueChoices ==
    { <<>> } \cup
    { << SheetRow(BlankSrc,
                  WorkRow(Str(S1), Str(<<"A">>), Str(<<"a">>), Num(<<"4">>),
                          c[1], c[2])) >> :
        c \in EditChoices \cup { <<Str(txtNotSent), Empty>> } }

\* the store with a work queue in place and the header rows as found
InitHeader ==
    /\ \E m \in SrcConfigs("Math", MaxRefreshRows), q \in QueueChoices,
          log \in InitIssueLogs, h \in [Subjects -> HeaderChoices] :
         /\ sheet = [s \in Subjects |->
                       withSource(q, IF s = "Math" THEN m
                                     ELSE << SrcRow(Str(S1), Str(<<"A">>),
                                                    Str(txtSendEmail),
                                                    Str(<<"a">>), Num(<<"3">>)) >>)]
         /\ issueLog = log
         /\ header = h
    /\ dataSheet = [s \in Subjects |-> DataRows]
    /\ sentLog = [s \in Subjects |-> <<>>]
    /\ today = 1
    /\ last = Op("none", "none", TRUE, FALSE, <<>>, <<>>)
    /\ sentOn = [s \in Subjects |-> {}]
    /\ logSheets = BothLogs
    /\ navi = NaviIdle("none")
    \* no store call throws in these runs
    /\ events = MaxEvents

NextHeader ==
    \/ Load
    \/ \E subj \in Subjects : Move(subj)

SpecHeader == InitHeader /\ [][NextHeader]_vars

\* ---------------------------------------------------------------------------
\* A spreadsheet that may lack its log sheets
\* ---------------------------------------------------------------------------

\* the store with a work queue in place and some, all or none of the two
\* log sheets; the logs that exist are empty
InitSheets ==
    /\ \E m \in SrcConfigs("Math", MaxRefreshRows), q \in QueueChoices :
         sheet = [s \in Subjects |->
                    withSource(q, IF s = "Math" THEN m
                                  ELSE << SrcRow(Str(S1), Str(<<"A">>),
                                                 Str(txtSendEmail),
                                                 Str(<<"a">>), Num(<<"3">>)) >>)]
    /\ dataSheet = [s \in Subjects |-> DataRows]
    /\ sentLog = [s \in Subjects |-> <<>>]
    /\ issueLog = <<>>
    /\ today = 1
    /\ last = Op("none", "none", TRUE, FALSE, <<>>, <<>>)
    /\ sentOn = [s \in Subjects |-> {}]
    \* no store call throws in these runs
    /\ events = MaxEvents
    /\ header = [s \in Subjects |-> DASHBOARD_HEADERS]
    /\ logSheets \in SUBSET BothLogs
    /\ navi = NaviIdle("none")

NextSheets ==
    \/ Load
    \/ \E subj \in Subjects : Move(subj)

SpecSheets == InitSheets /\ [][NextSheets]_vars

\* ---------------------------------------------------------------------------

\* The ClassNavi client: Verify from ClassNavi (src/Code.js), the
\* study-profile panel (src/unnamed/part_002) and the command-line puller
\* (src/unnamed/part_003), one of them per run.  A request is answered or
\* fails; what the server answers is not the client's to choose.
\* ---------------------------------------------------------------------------

pageSize == 100
maxPages == 20

\* lengths of the student page a request is answered with
PageLens == {0, 40, pageSize}

\* what a ClassNavi step leaves alone: Verify writes columns P..T of the
\* dashboard only, the panel and the puller write no sheet
store == <<sheet, dataSheet, sentLog, issueLog, today, last, sentOn, events,
           header, logSheets>>

\* next() of fetchAllLowestPages in chain c: the completion step when the
\* queue is used up, else the request for the next item.  buildGet-
\* StudyResultRequestBody yields a body whenever the run got past its
\* center-context check, so the branch for a missing body is not taken
next(st, c, afterDelay) ==
    IF st.chain[c].index >= NumItems
    THEN [st EXCEPT !.chain[c].pc = "done", !.chain[c].completions = @ + 1,
                    !.issued = 0, !.delayed = TRUE, !.gap = afterDelay \/ @]
    ELSE [st EXCEPT !.chain[c].pc = "wait", !.chain[c].index = @ + 1,
                    !.chain[c].taken = Append(@, st.chain[c].index + 1),
                    !.inflight = @ + 1, !.issued = 1,
                    !.delayed = afterDelay \/ st.gap, !.gap = FALSE]

\* a click on "Fetch lowest pages": fetchAllLowestPages empties the shared
\* entries list and starts a chain of its own over the queue, whether or not
\* an earlier chain is still running
ClickFetchLowest ==
    /\ navi.prog = "lowest"
    /\ navi.runs < MaxChains
    /\ navi' = next([navi EXCEPT !.entries = <<>>, !.runs = @ + 1],
                    navi.runs + 1, FALSE)
    /\ UNCHANGED store

\* a stop at the first failed call, in place of the timer
settleStopOnFailure(st, c, outcome) ==
    [st EXCEPT !.inflight = @ - 1, !.issued = 0, !.delayed = TRUE,
               !.chain[c].pc = IF outcome = "ok" THEN "timer" ELSE "stopped",
               !.chain[c].failed =
                   IF outcome = "ok" THEN @ ELSE @ \cup {st.chain[c].index},
               !.entries =
                   IF outcome = "ok"
                   THEN Append(@, [item |-> st.chain[c].index, run |-> c])
                   ELSE @]

\* the handlers of the study-result fetch in chain c: an entry is pushed to
\* the list allLowestPagesData.entries names at that moment when the answer
\* is good, and the timer for next() is set in every case.  run tells which
\* chain pushed the entry
settle(st, c, outcome) ==
    [st EXCEPT !.inflight = @ - 1, !.issued = 0, !.delayed = TRUE,
               !.chain[c].pc = "timer",
               !.chain[c].failed =
                   IF outcome = "ok" THEN @ ELSE @ \cup {st.chain[c].index},
               !.entries =
                   IF outcome = "ok"
                   THEN Append(@, [item |-> st.chain[c].index, run |-> c])
                   ELSE @]

\* the study-result request of chain c is answered: a good answer, an answer
\* that is not ok or carries a ResultCode, or a failed fetch
LowestResponse(c) ==
    /\ navi.prog = "lowest"
    /\ navi.chain[c].pc = "wait"
    /\ \E outcome \in {"ok", "refused", "error"} :
         navi' = settle(navi, c, outcome)
    /\ UNCHANGED store

\* the timer of chain c fires after delayMs: next()
LowestTimer(c) ==
    /\ navi.prog = "lowest"
    /\ navi.chain[c].pc = "timer"
    /\ navi' = next(navi, c, TRUE)
    /\ UNCHANGED store

\* a click on "Fetch ALL students": fetchAllStudentsPaginated requests page 1
ClickFetchStudents ==
    /\ navi.prog = "students"
    /\ navi.pc = "idle"
    /\ navi' = [navi EXCEPT !.pc = "page1", !.inflight = 1, !.issued = 1,
                            !.delayed = navi.gap, !.gap = FALSE]
    /\ UNCHANGED store

\* page 1 is answered: a short page ends the fetch, a full page sends the
\* page-2 probes of all five schemas at once
Page1Response ==
    /\ navi.prog = "students"
    /\ navi.pc = "page1"
    /\ \E ok \in BOOLEAN, r \in PageLens :
         navi' = IF ~ok
                 THEN [navi EXCEPT !.pc = "done", !.inflight = 0, !.issued = 0,
                                   !.delayed = TRUE]
                 ELSE IF r < pageSize
                 THEN [navi EXCEPT !.pc = "done", !.students = r,
                                   !.inflight = 0, !.issued = 0,
                                   !.delayed = TRUE]
                 ELSE [navi EXCEPT !.pc = "probe", !.students = r,
                                   !.probes = [i \in 1..5 |-> "pending"],
                                   !.inflight = 5, !.issued = 5,
                                   !.delayed = FALSE, !.gap = FALSE]
    /\ UNCHANGED store

\* the schema picked from the probe results: the first that brought new
\* students, 0 when none did
chosenSchema(ps) ==
    IF \E j \in 1..5 : ps[j] = "fresh"
    THEN CHOOSE j \in 1..5 :
           ps[j] = "fresh" /\ \A k \in 1..(j - 1) : ps[k] # "fresh"
    ELSE 0

\* probe i is answered: it failed, brought an empty list, brought only
\* students already held, or brought new ones; with the last answer
\* Promise.all resolves and the schema is picked
ProbeResponse(i) ==
    /\ navi.prog = "students"
    /\ navi.pc = "probe"
    /\ navi.probes[i] = "pending"
    /\ \E o \in {"fail", "empty", "stale", "fresh"} :
        \E ps \in {[navi.probes EXCEPT ![i] = o]} :
          navi' = IF \E j \in 1..5 : ps[j] = "pending"
                  THEN [navi EXCEPT !.probes = ps, !.inflight = @ - 1,
                                    !.issued = 0, !.delayed = TRUE]
                  ELSE IF chosenSchema(ps) = 0
                  THEN [navi EXCEPT !.pc = "done",
                                    !.probes = [j \in 1..5 |-> "none"],
                                    !.inflight = 0, !.issued = 0,
                                    !.delayed = TRUE]
                  ELSE [navi EXCEPT !.pc = "timer",
                                    !.probes = [j \in 1..5 |-> "none"],
                                    !.chosen = chosenSchema(ps),
                                    !.students = @ + pageSize,
                                    !.pagesFetched = 2,
                                    !.inflight = 0, !.issued = 0,
                                    !.delayed = TRUE]
    /\ UNCHANGED store

\* the 250 ms timer fires: nextPage stops at maxPages or requests the page
nextPage ==
    /\ navi.prog = "students"
    /\ navi.pc = "timer"
    /\ navi' = IF navi.pagesFetched + 1 > maxPages
               THEN [navi EXCEPT !.pagesFetched = @ + 1, !.pc = "done",
                                 !.issued = 0, !.delayed = TRUE, !.gap = TRUE]
               ELSE [navi EXCEPT !.pagesFetched = @ + 1, !.pc = "page",
                                 !.inflight = 1, !.issued = 1,
                                 !.delayed = TRUE, !.gap = FALSE]
    /\ UNCHANGED store

\* a later page is answered: the fetch ends on a failure, an empty page or a
\* page that adds no student, else the timer is set
PageResponse ==
    /\ navi.prog = "students"
    /\ navi.pc = "page"
    /\ \E ok \in BOOLEAN, r \in PageLens, added \in {0, 40} :
         /\ added <= r
         /\ navi' = IF ~ok \/ r = 0 \/ added = 0
                    THEN [navi EXCEPT !.pc = "done", !.inflight = 0,
                                      !.issued = 0, !.delayed = TRUE]
                    ELSE [navi EXCEPT !.pc = "timer", !.students = @ + added,
                                      !.inflight = 0, !.issued = 0,
                                      !.delayed = TRUE]
    /\ UNCHANGED store

\* classNaviLogin and classNaviGetInstructorInfo, one blocking request each;
\* a failure ends the run with an alert.  The puller's main makes the same
\* two calls
VerifyPrelude ==
    /\ navi.prog \in {"verify", "main"}
    /\ navi.pc \in {"idle", "info"}
    /\ \E ok \in BOOLEAN :
         navi' = [navi EXCEPT !.pc = IF ~ok THEN "failed"
                                     ELSE IF navi.pc = "idle" THEN "info"
                                     ELSE "first",
                              !.issued = 1, !.delayed = navi.gap,
                              !.gap = FALSE]
    /\ UNCHANGED store

\* one request of classNaviGetAllStudents: the first page, the first page
\* asked again by StartNum when it came empty, or a later page.  A page
\* shorter than pageSize ends the list
StudentsPage ==
    /\ navi.prog \in {"verify", "main"}
    /\ navi.pc \in {"first", "retry", "page"}
    /\ \E ok \in BOOLEAN, r \in PageLens :
         navi' = IF ~ok
                 THEN [navi EXCEPT !.pc = "failed", !.issued = 1,
                                   !.delayed = navi.gap, !.gap = FALSE]
                 ELSE IF navi.pc = "first" /\ r = 0
                 THEN [navi EXCEPT !.pc = "retry", !.issued = 1,
                                   !.delayed = navi.gap, !.gap = FALSE]
                 ELSE [navi EXCEPT !.pc = IF r < pageSize THEN "items"
                                          ELSE "sleep",
                                   !.students = Min(@ + r, StudentCap),
                                   !.useStartNum = @ \/ navi.pc = "retry",
                                   !.issued = 1, !.delayed = navi.gap,
                                   !.gap = FALSE]
    /\ UNCHANGED store

\* Utilities.sleep(500) before the next page
StudentsSleep ==
    /\ navi.prog \in {"verify", "main"}
    /\ navi.pc = "sleep"
    /\ navi' = [navi EXCEPT !.pc = "page", !.issued = 0, !.delayed = TRUE,
                            !.gap = TRUE]
    /\ UNCHANGED store

\* one turn of the loop over rowsWithLoginId: the student or its study info
\* is absent, or the study-result call is made and returns or throws, with
\* Utilities.sleep(400) after it; the row is written with the error text in
\* every case.  The puller's loop has no error column
VerifyItem ==
    /\ navi.prog \in {"verify", "main"}
    /\ navi.pc = "items"
    /\ navi.chain[1].index < NumItems
    /\ \E o \in {"absent", "ok", "throw"}, i \in {navi.chain[1].index + 1} :
         navi' = [navi EXCEPT !.chain[1].index = i,
                              !.chain[1].taken = Append(@, i),
                              !.chain[1].failed =
                                  IF o = "throw" THEN @ \cup {i} ELSE @,
                              !.errors =
                                  IF navi.prog = "verify" /\ o # "ok"
                                  THEN @ \cup {i} ELSE @,
                              !.issued = IF o = "absent" THEN 0 ELSE 1,
                              !.delayed = o = "absent" \/ navi.gap,
                              !.gap = o # "absent" \/ @]
    /\ UNCHANGED store

\* the end of the loop: the status cell is cleared and 'Verify complete' shown
VerifyComplete ==
    /\ navi.prog \in {"verify", "main"}
    /\ navi.pc = "items"
    /\ navi.chain[1].index = NumItems
    /\ navi' = [navi EXCEPT !.pc = "done", !.chain[1].pc = "done",
                            !.chain[1].completions = @ + 1,
                            !.issued = 0, !.delayed = TRUE]
    /\ UNCHANGED store

\* a spreadsheet the ClassNavi client runs beside, and one of the programs
InitNavi ==
    /\ sheet = [s \in Subjects |-> <<>>]
    /\ dataSheet = [s \in Subjects |-> DataRows]
    /\ sentLog = [s \in Subjects |-> <<>>]
    /\ issueLog = <<>>
    /\ today = 1
    /\ last = Op("none", "none", TRUE, FALSE, <<>>, <<>>)
    /\ sentOn = [s \in Subjects |-> {}]
    /\ events = 0
    /\ header = [s \in Subjects |-> DASHBOARD_HEADERS]
    /\ logSheets = BothLogs
    /\ navi \in { NaviIdle(p) : p \in {"lowest", "students", "verify", "main"} }

\* the steps the runtime takes by itself: answers arrive, timers fire, the
\* script goes on
NaviRun ==
    \/ \E c \in 1..MaxChains : LowestResponse(c)
    \/ \E c \in 1..MaxChains : LowestTimer(c)
    \/ Page1Response
    \/ \E i \in 1..5 : ProbeResponse(i)
    \/ nextPage
    \/ PageResponse
    \/ VerifyPrelude
    \/ StudentsPage
    \/ StudentsSleep
    \/ VerifyItem
    \/ VerifyComplete

NextNavi ==
    \/ ClickFetchLowest
    \/ ClickFetchStudents
    \/ NaviRun

\* every pending answer arrives, every timer fires and the script does not
\* stop between two statements
SpecNavi == InitNavi /\ [][NextNavi]_vars /\ WF_vars(NaviRun)

\* ---------------------------------------------------------------------------

\* Properties of the work queue
\* ---------------------------------------------------------------------------

\* the sheet rows of a subject that hold a WorkRow (non-empty LoginID)
queueIdx(rows) == { i \in 1..Len(rows) : trim(String(rows[i].work.loginId)) # <<>> }

\* the work queue of a subject: its WorkRows in sheet order
queueOf(rows) ==
    LET RECURSIVE from(_)
        from(i) == IF i > Len(rows) THEN <<>>
                   ELSE (IF i \in queueIdx(rows) THEN <<rows[i].work>> ELSE <<>>)
                        \o from(i + 1)
    IN  from(1)

\* the normalized (loginId, triggerNumber) pair of a work or source row
pairOf(row) == <<trim(String(row.loginId)), trim(String(row.trigger))>>

\* a dashboard source row marked SEND EMAIL with a LoginID
eligible(src) ==
    /\ toLowerCase(trim(String(src.flag))) = lowSendEmail
    /\ trim(String(src.loginId)) # <<>>

\* C1: no two WorkRows of one subject's work queue share the same normalized
\* (loginId, triggerNumber) pair, in every reachable state
C1_UniqueKeys ==
    \A s \in Subjects :
      \A i, j \in queueIdx(sheet[s]) :
        i # j => pairOf(sheet[s][i].work) # pairOf(sheet[s][j].work)

\* C1 witness: right after a Load, two eligible dashboard rows of Math have the
\* same normalized pair and the queue holds a row for it
C1_Witness ==
    /\ last.op = "Load"
    /\ \E i, j \in 1..Len(sheet["Math"]) :
         /\ i # j
         /\ eligible(sheet["Math"][i].src) /\ eligible(sheet["Math"][j].src)
         /\ pairOf(sheet["Math"][i].src) = pairOf(sheet["Math"][j].src)
         /\ sheet["Math"][i].src.trigger # sheet["Math"][j].src.trigger
         /\ \E q \in queueIdx(sheet["Math"]) :
              pairOf(sheet["Math"][q].work) = pairOf(sheet["Math"][i].src)

\* C2: Load keeps every WorkRow of the old queue, all six fields unchanged, in
\* the new queue of its subject
C2_LoadKeepsRows ==
    [][last'.op = "Load" =>
         \A s \in Subjects :
           \A i \in queueIdx(sheet[s]) :
             \E j \in queueIdx(sheet'[s]) : sheet'[s][j].work = sheet[s][i].work]_vars

\* the status of a WorkRow as Move reads it
statusOf(w) == toLowerCase(trim(String(w.status)))
isSent(w) == statusOf(w) = lowSent
isIssue(w) == statusOf(w) \in {lowIssue, lowIssueArchive}

\* the Sent Log and Issue Log entries a Move on subject s owes for a WorkRow
sentEntryFor(w, day) == SentEntry(w.loginId, w.name, w.trigger, TodayValue(day))
issueEntryFor(w, s, day) ==
    IssueEntry(Str(SubjectText(s)), w.loginId, w.name, w.trigger, w.note,
               TodayValue(day),
               Str(IF statusOf(w) = lowIssue THEN TAG_ISSUE ELSE TAG_ISSUE_ARCHIVE))

\* C3: a Move that runs to its end appends one Sent Log entry per Sent row to
\* the subject's Sent Log and one Issue Log entry per Issue or Issue - Archive
\* row, in queue order, removes exactly those rows from the queue and leaves
\* every other row in place with its fields unchanged
C3_MoveConservation ==
    [][last'.op = "Move" /\ last'.ok =>
         LET s == last'.subj
             q == queueOf(sheet[s])
             sentQ == SelectSeq(q, isSent)
             issueQ == SelectSeq(q, isIssue)
             restQ == SelectSeq(q, LAMBDA w : ~isSent(w) /\ ~isIssue(w))
         IN  /\ sentLog'[s] = sentLog[s] \o
                   [i \in 1..Len(sentQ) |-> sentEntryFor(sentQ[i], today)]
             /\ \A o \in Subjects \ {s} : sentLog'[o] = sentLog[o]
             /\ issueLog' = issueLog \o
                   [i \in 1..Len(issueQ) |-> issueEntryFor(issueQ[i], s, today)]
             /\ queueOf(sheet'[s]) = restQ]_vars

\* C3 witness: a Move has run to its end, logged a Sent row and an Issue row
\* and left a row in the queue
C3_Witness ==
    /\ last.op = "Move" /\ last.ok
    /\ last.sent # <<>> /\ last.issues # <<>>
    /\ queueIdx(sheet[last.subj]) # {}

\* the normalized pairs of a subject's work queue
pairsOf(rows) == { pairOf(rows[i].work) : i \in queueIdx(rows) }

\* the loginIds with a Sent Log entry of the subject dated in today's bucket
sentToday(log, day) ==
    { trim(String(log[i].loginId)) :
        i \in { j \in 1..Len(log) :
                  /\ log[j].date.k = "date"
                  /\ log[j].date.t \div DayMs = TodayValue(day).t \div DayMs } }

\* the WorkRows of rows2 that Load admitted: their pair is not in rows1
admitted(rows1, rows2) ==
    { i \in queueIdx(rows2) : pairOf(rows2[i].work) \notin pairsOf(rows1) }

taggedRows(log, s, tag) ==
    { r \in 1..Len(log) :
        /\ toLowerCase(trim(String(log[r].subject))) = toLowerCase(SubjectText(s))
        /\ trim(String(log[r].tag)) = tag }

\* the loginIds archived for a subject
archivedIds(log, s) ==
    { trim(String(log[r].loginId)) : r \in taggedRows(log, s, TAG_ISSUE_ARCHIVE) }

\* C5: Load admits no new WorkRow to a subject's queue for a loginId that has
\* an Issue Log entry of that subject tagged Issue - Archive
C5_ArchiveSuppression ==
    [][last'.op = "Load" =>
         \A s \in Subjects :
           \A i \in admitted(sheet[s], sheet'[s]) :
             trim(String(sheet'[s][i].work.loginId)) \notin archivedIds(issueLog, s)]_vars

\* C5 witness: a Load has run while the Math dashboard marks SEND EMAIL a
\* loginId archived for Math, under a pair that is not in the queue
C5_Witness ==
    /\ last.op = "Load"
    /\ \E i \in 1..Len(sheet["Math"]) :
         /\ eligible(sheet["Math"][i].src)
         /\ trim(String(sheet["Math"][i].src.loginId)) \in archivedIds(issueLog, "Math")
         /\ pairOf(sheet["Math"][i].src) \notin pairsOf(sheet["Math"])

\* the number of rows of a log equal to the entry e
countOf(log, e) == Cardinality({ r \in 1..Len(log) : log[r] = e })

\* the dashboard still marks the pair of the Issue Log entry e SEND EMAIL
stillEligible(rows, e) ==
    \E i \in 1..Len(rows) :
      eligible(rows[i].src) /\ pairOf(rows[i].src) = pairOf(e)

\* the Issue-tagged entries with a note that the Move just before wrote and
\* that the next Load is to bring back: the dashboard still marks the pair
\* SEND EMAIL, the loginId is neither archived nor sent today
roundTrip(s) ==
    { r \in 1..Len(last.issues) :
        LET e == last.issues[r]
        IN  /\ trim(String(e.tag)) = TAG_ISSUE
            /\ trim(String(e.note)) # <<>>
            /\ stillEligible(sheet[s], e)
            /\ trim(String(e.loginId)) \notin archivedIds(issueLog, s)
            /\ trim(String(e.loginId)) \notin sentToday(sentLog[s], today) }

\* C6: the Load that follows a Move re-admits, for every Issue entry with note
\* X the Move wrote and whose pair the dashboard still marks SEND EMAIL, a
\* WorkRow of that pair with status Issue and note X, and deletes the Issue
\* Log row the Move wrote
C6_RoundTrip ==
    [][last.op = "Move" /\ last.ok /\ last'.op = "Load" =>
         \A r \in roundTrip(last.subj) :
           LET s == last.subj
               e == last.issues[r]
           IN  /\ \E i \in queueIdx(sheet'[s]) :
                    /\ pairOf(sheet'[s][i].work) = pairOf(e)
                    /\ trim(String(sheet'[s][i].work.status)) = TAG_ISSUE
                    /\ sheet'[s][i].work.note = e.note
               /\ countOf(issueLog', e) < countOf(issueLog, e)]_vars

\* the work columns of a dashboard, row by row
workArea(rows) == [i \in 1..Len(rows) |-> rows[i].work]

\* C7: a Load that directly follows a Load leaves both work queues as the
\* first Load left them and deletes nothing from the Issue Log
C7_LoadIdempotent ==
    [][last'.op = "Load" /\ last'.again =>
         /\ \A s \in Subjects : workArea(sheet'[s]) = workArea(sheet[s])
         /\ issueLog' = issueLog]_vars

records(e, w) ==
    e.loginId = w.loginId /\ e.name = w.name /\ e.trigger = w.trigger

\* C9: after a Move that failed at one of its store writes, no WorkRow still
\* in the subject's queue is recorded in the Sent Log or Issue Log rows that
\* Move wrote
C9_MoveAllOrNothing ==
    last.op = "Move" /\ ~last.ok =>
      \A i \in queueIdx(sheet[last.subj]) :
        \A e \in Range(last.sent) \cup Range(last.issues) :
          ~records(e, sheet[last.subj][i].work)

\* the set of SourceRows of a dashboard
sourceRows(rows) == { rows[i].src : i \in 1..Len(rows) } \ {BlankSrc}

\* C10: a Load or a Move leaves the set of SourceRows of every dashboard as
\* it was
C10_SourceReadOnly ==
    [][last'.op \in {"Load", "Move"} =>
         \A s \in Subjects : sourceRows(sheet'[s]) = sourceRows(sheet[s])]_vars

\* log1 is an initial part of log2, entry by entry
isPrefix(log1, log2) ==
    /\ Len(log1) <= Len(log2)
    /\ \A r \in 1..Len(log1) : log2[r] = log1[r]

\* C11: no step modifies, overwrites or deletes an existing Sent Log entry: a
\* Load leaves both halves of the Sent Log as they are and a Move only adds
\* entries after the last entry of its subject's half
C11_SentLogAppendOnly ==
    [][/\ \A s \in Subjects : isPrefix(sentLog[s], sentLog'[s])
       /\ last'.op = "Load" => sentLog' = sentLog
       /\ last'.op = "Move" =>
            \A s \in Subjects \ {last'.subj} : sentLog'[s] = sentLog[s]]_vars

\* C11 witness: a Move has added Sent Log entries below entries that an
\* earlier Move wrote
C11_Witness ==
    /\ last.op = "Move" /\ last.ok
    /\ last.sent # <<>>
    /\ Len(sentLog[last.subj]) > Len(last.sent)

\* the Issue Log entries tagged Issue - Archive, in log order
archiveEntries(log) ==
    SelectSeq(log, LAMBDA e : trim(String(e.tag)) = TAG_ISSUE_ARCHIVE)

\* C12: no step deletes or alters an Issue Log entry tagged Issue - Archive:
\* the archived entries before a step are, in order, the first archived
\* entries after it, and a loginId archived for a subject stays archived
C12_ArchiveRetained ==
    [][/\ isPrefix(archiveEntries(issueLog), archiveEntries(issueLog'))
       /\ \A s \in Subjects : archivedIds(issueLog, s) \subseteq archivedIds(issueLog', s)
       /\ last'.op = "Load" => archiveEntries(issueLog') = archiveEntries(issueLog)]_vars

\* C12 witness: a Load has removed an entry it brought back from an Issue Log
\* that also holds an archived entry
C12_Witness ==
    /\ last.op = "Load"
    /\ last.removed # {}
    /\ archiveEntries(issueLog) # <<>>

\* the (loginId, triggerNumber) pair as trimmed strings, a null trigger read
\* as the empty string
normPair(loginId, triggerNum) ==
    <<trim(String(loginId)),
      IF triggerNum.k = "null" THEN <<>> ELSE trim(String(triggerNum))>>

\* C13: the key of a queue row and the key of a dashboard row are equal
\* exactly when their trimmed loginIds and their trimmed trigger numbers are
\* equal as strings
C13_KeyNormalization ==
    \A i, j \in 1..Len(sheet["Math"]) :
      LET w == sheet["Math"][i].work
          d == sheet["Math"][j].src
      IN  (key(Str(workId(w)), w.trigger) = key(Str(idOf(d.loginId)), d.trigger))
            <=> (normPair(w.loginId, w.trigger) = normPair(d.loginId, d.trigger))

\* the Issue Log entries written under a subject, in log order
entriesOf(log, subj) == SelectSeq(log, LAMBDA e : issueSubject(e) = subj)

\* the queue loadOneDashboard builds for a subject when the Issue Log holds
\* that subject's entries only
ownLoad(subj) ==
    loadOneDashboard(sheet[subj],
                     loggedTodayIds(sentLog[subj], dayBucket(loadToday(today))),
                     excludeFromLoad(entriesOf(issueLog, subj), subj),
                     issueEntriesBySubject(entriesOf(issueLog, subj), subj),
                     dataSheet[subj],
                     clearMaxRows).rows

\* C14: the two subjects do not influence each other: the queue a Load builds
\* for a subject is the one it builds when the other subject's Issue Log
\* entries are taken away, and a Move leaves the other subject's dashboard,
\* its half of the Sent Log and its Issue Log entries as they are and adds
\* Issue Log entries of its own subject only
C14_SubjectIndependence ==
    [][/\ last'.op = "Load" => \A s \in Subjects : sheet'[s] = ownLoad(s)
       /\ last'.op = "Move" =>
            /\ \A e \in Range(last'.issues) : issueSubject(e) = last'.subj
            /\ \A s \in Subjects \ {last'.subj} :
                 /\ sheet'[s] = sheet[s]
                 /\ sentLog'[s] = sentLog[s]
                 /\ entriesOf(issueLog', s) = entriesOf(issueLog, s)]_vars

\* C14 witness: a Load has brought a Math issue back into the Math queue
\* while the Issue Log holds an entry of the Reading dashboard
C14_Witness ==
    /\ last.op = "Load"
    /\ last.removed # {}
    /\ \E i \in 1..Len(sheet["Math"]) : isIssue(sheet["Math"][i].work)
    /\ entriesOf(issueLog, "Reading") # <<>>

\* the notes of the Issue-tagged entries logged for a subject under the pair
issueNotes(log, s, pair) ==
    { String(log[r].note) :
        r \in { q \in taggedRows(log, s, TAG_ISSUE) : pairOf(log[q]) = pair } }

\* the WorkRows of rows2 that Load admitted as candidates of dashboard rows:
\* an eligible source row of rows1 carries their pair
candidates(rows1, rows2) ==
    { i \in admitted(rows1, rows2) :
        \E d \in 1..Len(rows1) :
          eligible(rows1[d].src) /\ pairOf(rows1[d].src) = pairOf(rows2[i].work) }

\* C15: a candidate that Load admits for an eligible dashboard row has status
\* Issue and the note of the log exactly when the Issue Log holds an
\* Issue-tagged entry of the subject for its pair, whatever the note (an
\* empty one included); otherwise it has status Not Sent and an empty note
C15_CandidateClassification ==
    [][last'.op = "Load" =>
         \A s \in Subjects :
           \A i \in candidates(sheet[s], sheet'[s]) :
             LET w == sheet'[s][i].work
                 notes == issueNotes(issueLog, s, pairOf(w))
             IN  IF notes # {}
                 THEN String(w.status) = TAG_ISSUE /\ String(w.note) \in notes
                 ELSE String(w.status) = txtNotSent /\ String(w.note) = <<>>]_vars

\* the loginId of a log entry or row appears in a SEND EMAIL row of the
\* dashboard
onDashboard(rows, e) ==
    \E d \in 1..Len(rows) :
      eligible(rows[d].src)
        /\ trim(String(rows[d].src.loginId)) = trim(String(e.loginId))

\* the queue holds the Issue Log entry e as a WorkRow with status Issue and
\* the entry's note
surfaced(rows, e) ==
    \E i \in queueIdx(rows) :
      /\ pairOf(rows[i].work) = pairOf(e)
      /\ String(rows[i].work.status) = TAG_ISSUE
      /\ String(rows[i].work.note) = String(e.note)

resurfaced(s) ==
    { r \in taggedRows(issueLog, s, TAG_ISSUE) :
        /\ trim(String(issueLog[r].loginId)) # <<>>
        /\ \E i \in admitted(sheet[s], sheet'[s]) \ candidates(sheet[s], sheet'[s]) :
             pairOf(sheet'[s][i].work) = pairOf(issueLog[r])
        /\ \A q \in taggedRows(issueLog, s, TAG_ISSUE) :
             pairOf(issueLog[q]) = pairOf(issueLog[r]) => r <= q }

\* the log without the entries at the positions R, the others in their order
without(log, R) ==
    LET keep == SelectSeq([i \in 1..Len(log) |-> i], LAMBDA i : i \notin R)
    IN  [k \in 1..Len(keep) |-> log[keep[k]]]

\* C17: Load deletes from the Issue Log exactly the entries it brought back
\* into a work queue, by their log row; all other entries, of either tag and
\* either subject, stay unchanged and in their order
C17_LoadDeletesResurfaced ==
    [][last'.op = "Load" =>
         /\ last'.removed = UNION { resurfaced(s) : s \in Subjects }
         /\ issueLog' = without(issueLog, UNION { resurfaced(s) : s \in Subjects })]_vars

\* C17 witness: a Load has brought back two entries and left others in the
\* Issue Log
C17_Witness ==
    /\ last.op = "Load"
    /\ Cardinality(last.removed) >= 2
    /\ issueLog # <<>>
    /\ \E r \in last.removed : r <= Len(issueLog)

\* C18: the Issue Log never holds two Issue-tagged entries for the same
\* subject and pair, and after a Load no Issue-tagged entry of the log has
\* the pair of a WorkRow that the Load put into the subject's queue with
\* status Issue
C18_IssueInOnePlace ==
    [][/\ \A s \in Subjects :
            \A r, q \in taggedRows(issueLog', s, TAG_ISSUE) :
              r # q => pairOf(issueLog'[r]) # pairOf(issueLog'[q])
       /\ last'.op = "Load" =>
            \A s \in Subjects :
              \A i \in admitted(sheet[s], sheet'[s]) :
                String(sheet'[s][i].work.status) = TAG_ISSUE =>
                  \A r \in taggedRows(issueLog', s, TAG_ISSUE) :
                    pairOf(issueLog'[r]) # pairOf(sheet'[s][i].work)]_vars

\* the WorkRows of a queue with status Issue or Issue - Archive, in queue
\* order
issueRowsIn(rows) ==
    SelectSeq(workArea(rows),
              LAMBDA w : trim(String(w.loginId)) # <<>> /\ isIssue(w))

\* C19: a Move that runs to its end appends to the Issue Log one entry per
\* WorkRow with status Issue or Issue - Archive (compared without case), and
\* the entry carries the dashboard's subject, the row's loginId, name,
\* triggerNumber and note, today's date, and the tag Issue for status Issue,
\* Issue - Archive for status Issue - Archive
C19_IssueEntryFields ==
    [][last'.op = "Move" /\ last'.ok =>
         LET s == last'.subj
             q == issueRowsIn(sheet[s])
             n == Len(issueLog)
         IN  /\ Len(issueLog') = n + Len(q)
             /\ Len(last'.issues) = Len(q)
             /\ \A k \in 1..Len(q) :
                  LET e == issueLog'[n + k]
                      w == q[k]
                  IN  /\ issueSubject(e) = s
                      /\ e.loginId = w.loginId /\ e.name = w.name
                      /\ e.trigger = w.trigger /\ e.note = w.note
                      /\ e.date = TodayValue(today)
                      /\ (statusOf(w) = lowIssue => String(e.tag) = TAG_ISSUE)
                      /\ (statusOf(w) = lowIssueArchive
                            => String(e.tag) = TAG_ISSUE_ARCHIVE)]_vars

\* C19 witness: a Move has logged a row whose status was typed as an
\* upper-case Issue - Archive with a trailing blank
C19_Witness ==
    /\ last.op = "Move" /\ last.ok
    /\ \E k \in 1..Len(last.issues) :
         /\ String(last.issues[k].tag) = TAG_ISSUE_ARCHIVE
         /\ issueSubject(last.issues[k]) = last.subj
         /\ last.issues[k].date = TodayValue(today)

\* the required columns of a subject's dashboard cannot be located
missingColumns(s) == missingHeaders(moveColumns(header[s]))

\* the operation ended with an error shown to the operator
reportsError(op) == op.alert \in {"Missing headers", "Move error", "Load error"}

\* C20: when the required columns of a subject's dashboard cannot be located,
\* a Move run on that dashboard and a Load both show an error and leave the
\* subject's work queue and the log entries as they are
C20_MissingColumnsFatal ==
    [][\A s \in Subjects :
         missingColumns(s) =>
           /\ (last'.op = "Move" /\ last'.subj = s) =>
                /\ reportsError(last')
                /\ sheet'[s] = sheet[s]
                /\ sentLog' = sentLog /\ issueLog' = issueLog
           /\ last'.op = "Load" =>
                /\ reportsError(last')
                /\ sheet'[s] = sheet[s]
                /\ sentLog'[s] = sentLog[s]
                /\ entriesOf(issueLog', s) = entriesOf(issueLog, s)]_vars

\* the alert reports a fatal error of the operation
fatalAlert(op) == op.alert \in {"Move error", "Load error"}

\* C21: the error shown when a Move or a Load fails names the operation and
\* gives the counts of the rows classified so far: for a Move, the number of
\* Sent rows and the number of Issue rows of the queue it classified
C21_ErrorReportsCounts ==
    [][fatalAlert(last') =>
         /\ last'.op \in {"Move", "Load"}
         /\ last'.op = "Move" =>
              last'.counts =
                <<Len(SelectSeq(queueOf(sheet[last'.subj]), isSent)),
                  Len(SelectSeq(queueOf(sheet[last'.subj]), isIssue))>>
         /\ last'.op = "Load" => Len(last'.counts) = 2]_vars

\* the entries a Move appended to the two logs
appended(op) == Range(op.sent) \cup Range(op.issues)

\* C22: Move and Load take today from the store: every date a Move writes is
\* the value the store gives for today, a Move that runs to its end stamps
\* that one date on every Sent Log and Issue Log entry it appends, and a Load
\* admits an eligible, unarchived dashboard row that is not in the queue
\* exactly when its loginId has no Sent Log entry in the store's today
C22_TodayFromStore ==
    [][/\ last'.op = "Move" =>
            /\ \A e \in appended(last') :
                 e.date.k = "date" => e.date = TodayValue(today)
            /\ last'.ok => \A e \in appended(last') : e.date = TodayValue(today)
       /\ last'.op = "Load" =>
            \A s \in Subjects :
              \A d \in 1..Len(sheet[s]) :
                (/\ eligible(sheet[s][d].src)
                 /\ trim(String(sheet[s][d].src.loginId)) \notin archivedIds(issueLog, s)
                 /\ pairOf(sheet[s][d].src) \notin pairsOf(sheet[s]))
                => (pairOf(sheet[s][d].src) \in pairsOf(sheet'[s])
                      <=> trim(String(sheet[s][d].src.loginId))
                            \notin sentToday(sentLog[s], today))]_vars

\* C22 witness: on the second store day a Move has appended entries to both
\* logs
C22_Witness ==
    /\ today = 2
    /\ last.op = "Move" /\ last.ok
    /\ last.sent # <<>> /\ last.issues # <<>>

\* ---------------------------------------------------------------------------
\* Properties of the ClassNavi client
\* ---------------------------------------------------------------------------

\* C23: calls to the ClassNavi API are strictly sequential: a step that sends
\* requests sends one request, sends it while no earlier request is
\* unanswered, and sends it after a delay unless it is the first of all.
C23_SequentialRequests ==
    [][navi'.issued > 0 =>
         /\ navi'.issued = 1
         /\ navi.inflight = 0
         /\ navi'.delayed]_vars

\* chain c worked through every item once, in order, and reached its
\* completion step once
completed(c) ==
    /\ navi.chain[c].pc = "done"
    /\ navi.chain[c].taken = [i \in 1..NumItems |-> i]
    /\ navi.chain[c].completions = 1

\* C24: a failed study-result call costs its own item only: no item is taken
\* twice and the completion step is never reached twice, Verify records the
\* failure in the error column, and a run in which a call failed still goes
\* on to take every item once and to reach its completion step once.
C24_FailuresPerItem ==
    /\ [](\A c \in 1..MaxChains :
            /\ navi.chain[c].completions <= 1
            /\ \A i, j \in DOMAIN navi.chain[c].taken :
                 navi.chain[c].taken[i] = navi.chain[c].taken[j] => i = j)
    /\ [](navi.prog = "verify" => navi.chain[1].failed \subseteq navi.errors)
    /\ \A c \in 1..MaxChains : (navi.chain[c].failed # {}) ~> completed(c)

C24_Witness ==
    /\ navi.prog = "lowest"
    /\ completed(1)
    /\ 1 \in navi.chain[1].failed

\* C29: the student-list fetch ends: once its first page is asked for, the
\* fetch comes to its end, whatever pages the server answers with.
C29_PaginationTerminates ==
    (navi.pc \in {"first", "page1"}) ~> (navi.pc \in {"items", "done", "failed"})

\* C30: when a chain reaches its completion step, the entries list holds at
\* most one entry per item of the queue and only entries that chain pushed.
C30_EntriesOfOneRun ==
    [][\A c \in 1..MaxChains :
         (navi.chain[c].pc # "done" /\ navi'.chain[c].pc = "done") =>
            /\ \A i, j \in DOMAIN navi'.entries :
                 navi'.entries[i].item = navi'.entries[j].item => i = j
            /\ \A i \in DOMAIN navi'.entries : navi'.entries[i].run = c]_vars

\* ---------------------------------------------------------------------------
\* Properties of the log sheets
\* ---------------------------------------------------------------------------

\* C25: a Move run while neither log sheet exists creates both and carries on:
\* it ends without 'Move error', both logs exist after it, and a Load that
\* follows is not stopped by 'Missing sheets'.
C25_MoveCreatesLogs ==
    [][/\ (last'.op = "Move" /\ logSheets = {}) =>
            (logSheets' = BothLogs /\ last'.alert # "Move error")
       /\ (last.op = "Move" /\ last'.op = "Load") =>
            last'.alert # "Missing sheets"]_vars

\* ---------------------------------------------------------------------------
\* More properties of the work queue
\* ---------------------------------------------------------------------------

\* C26: when a loginId is on an eligible dashboard row with one trigger number
\* and in an Issue-tagged log entry of the subject with another, a Load admits
\* a WorkRow for at most one of the two pairs.
C26_FirstMatchWins ==
    [][last'.op = "Load" =>
         \A s \in Subjects :
           \A d \in 1..Len(sheet[s]) :
             \A r \in taggedRows(issueLog, s, TAG_ISSUE) :
               ( /\ eligible(sheet[s][d].src)
                 /\ pairOf(sheet[s][d].src)[1] = pairOf(issueLog[r])[1]
                 /\ pairOf(sheet[s][d].src) # pairOf(issueLog[r]) )
               => ~ \E i, j \in admitted(sheet[s], sheet'[s]) :
                      /\ pairOf(sheet'[s][i].work) = pairOf(sheet[s][d].src)
                      /\ pairOf(sheet'[s][j].work) = pairOf(issueLog[r])]_vars

\* C26 as the program has it: the queue is keyed by the pair, so when a
\* loginId is on an eligible dashboard row with one trigger number and in an
\* Issue-tagged log entry of the subject with another, neither pair being in
\* the queue, a Load admits a WorkRow for each of the two pairs, unless the
\* loginId has a Sent Log entry of today or an archived entry; the entry's
\* pair comes back with status Issue.
C26_BothPairsAdmitted ==
    [][last'.op = "Load" /\ last'.ok =>
         \A s \in Subjects :
           \A d \in 1..Len(sheet[s]) :
             \A r \in taggedRows(issueLog, s, TAG_ISSUE) :
               ( /\ eligible(sheet[s][d].src)
                 /\ pairOf(sheet[s][d].src)[1] = pairOf(issueLog[r])[1]
                 /\ pairOf(sheet[s][d].src) # pairOf(issueLog[r])
                 /\ pairOf(sheet[s][d].src) \notin pairsOf(sheet[s])
                 /\ pairOf(issueLog[r]) \notin pairsOf(sheet[s])
                 /\ pairOf(issueLog[r])[1] \notin sentToday(sentLog[s], today)
                 /\ pairOf(issueLog[r])[1] \notin archivedIds(issueLog, s) )
               => \E i, j \in admitted(sheet[s], sheet'[s]) :
                    /\ pairOf(sheet'[s][i].work) = pairOf(sheet[s][d].src)
                    /\ pairOf(sheet'[s][j].work) = pairOf(issueLog[r])
                    /\ String(sheet'[s][j].work.status) = TAG_ISSUE]_vars

C26_Witness ==
    /\ last.op = "Load"
    /\ \E i, j \in queueIdx(sheet["Math"]) :
         /\ pairOf(sheet["Math"][i].work)[1] = pairOf(sheet["Math"][j].work)[1]
         /\ pairOf(sheet["Math"][i].work)[2] = <<"3">>
         /\ pairOf(sheet["Math"][j].work)[2] = <<"4">>
         /\ pairOf(sheet["Math"][i].src) = pairOf(sheet["Math"][i].work)
         /\ String(sheet["Math"][j].work.note) = <<"Y">>

\* a WorkRow whose status is a non-empty text other than Sent, Issue,
\* Issue - Archive and Not Sent
isOther(w) ==
    statusOf(w) \notin {<<>>, lowSent, lowIssue, lowIssueArchive, lowNotSent}

\* C28: a Move leaves every WorkRow with another status as it is: these rows
\* stay in the queue, unchanged and in their order, and none of them is
\* recorded in the entries the Move appended; a WorkRow that left the queue
\* is recorded in an entry the Move appended.
C28_OtherStatusesUntouched ==
    [][last'.op = "Move" =>
         \E s \in {last'.subj} :
           /\ SelectSeq(queueOf(sheet'[s]), isOther)
                = SelectSeq(queueOf(sheet[s]), isOther)
           /\ \A i \in queueIdx(sheet[s]) :
                /\ isOther(sheet[s][i].work) =>
                     \A e \in appended(last') : ~records(e, sheet[s][i].work)
                /\ pairOf(sheet[s][i].work) \notin pairsOf(sheet'[s]) =>
                     \E e \in appended(last') : records(e, sheet[s][i].work)
           /\ \A t \in Subjects \ {s} : sheet'[t] = sheet[t]]_vars

C28_Witness ==
    /\ last.op = "Move"
    /\ last.ok
    /\ appended(last) # {}
    /\ \E i \in queueIdx(sheet[last.subj]) :
         String(sheet[last.subj][i].work.status) = txtHold

\* C27: Load erases no work row it did not read: a WorkRow that lies below the
\* clearMaxRows rows Load reads as the present queue is in its place, all six
\* fields unchanged, after the Load.
C27_ErasesOnlyRowsRead ==
    [][last'.op = "Load" =>
         \A s \in Subjects :
           \A i \in queueIdx(sheet[s]) :
             i > Len(existingRange(sheet[s], clearMaxRows)) =>
               /\ i <= Len(sheet'[s])
               /\ sheet'[s][i].work = sheet[s][i].work]_vars

====
